---- MODULE Spec2Model ----
(***************************************************************************)
(* SoundRight back office: the relational store and the request handlers   *)
(* of the REST API (quotes, invoices, delivery notes, equipment, projects  *)
(* and the project/equipment allocation), one action per request handler.  *)
(* Money is held in integer ten-thousandths of the currency unit, so that  *)
(* a whole-percent tax on a two-decimal price is exact; ids are SQLite     *)
(* AUTOINCREMENT row ids and 0 stands for SQL NULL / an omitted optional   *)
(* id (JS `x || null`).                                                    *)
(***************************************************************************)
EXTENDS Integers, Sequences, FiniteSets, TLC

\* ------------------------------------------------------------------ bounds
MaxQuoteId == 2
MaxInvoiceId == 1
MaxQuoteItemId == 2
MaxInvoiceItemId == 1
MaxNumberedId == 3
MaxEquipmentId == 2
MaxProjectId == 2
MaxAllocationId == 2
MaxYears == 2

NULL == 0
Currency == 10000
FirstYear == 2025
LastYear == FirstYear + MaxYears - 1

\* ------------------------------------------------------------------ inputs
TaxRates == {0, 10}
UnitPrices == {50 * Currency}
Quantities == {1, 2}
QuoteStatuses == {"draft", "accepted"}
InvoiceStatuses == {"draft", "paid"}
ProjectStatuses == {"planning", "active", "completed", "cancelled"}
Dates == {1, 2}

VARIABLES users, customers, equipment, projects, project_equipment, quotes,
          quote_items, invoices, invoice_items, delivery_notes, lastId, year,
          issued, last, reqs

dbVars == <<users, customers, equipment, projects, project_equipment, quotes,
            quote_items, invoices, invoice_items, delivery_notes, lastId>>
vars == <<users, customers, equipment, projects, project_equipment, quotes,
          quote_items, invoices, invoice_items, delivery_notes, lastId, year,
          issued, last, reqs>>

\* ------------------------------------------------------------ middleware
protect_ExistsOnly(u) == u \in DOMAIN users

\* protect: the token's user must exist and be active, else 401.
protect(u) == u \in DOMAIN users /\ users[u].is_active

authorize_Any(u, roles) == TRUE

\* authorize(...roles): the acting user's role must be one of roles, else 403.
authorize(u, roles) == users[u].role \in roles

\* created_by !== req.user.id && !['admin','manager'].includes(req.user.role)
canModify(u, created_by) == created_by = u \/ users[u].role \in {"admin", "manager"}

\* The response of the request just handled, with the request's parameters.
Response(op, u, a, b, code) == [op |-> op, user |-> u, a |-> a, b |-> b, code |-> code]

\* A request that is answered without any write.
Reject(op, u, a, b, code) ==
    /\ last' = Response(op, u, a, b, code)
    /\ UNCHANGED <<dbVars, issued>>

\* ------------------------------------------------------- document numbers
RECURSIVE Digits(_)
\* String(n): the decimal digits of n, most significant first.
Digits(n) == IF n < 10 THEN <<n>> ELSE Append(Digits(n \div 10), n % 10)

padStart_None(s, len) == s

RECURSIVE padStart(_, _)
\* s.padStart(len, '0')
padStart(s, len) == IF Len(s) >= len THEN s ELSE padStart(<<0>> \o s, len)

RECURSIVE DigitsValue(_)
\* The number a digit string denotes.
DigitsValue(s) == IF s = <<>> THEN 0
                  ELSE 10 * DigitsValue(SubSeq(s, 1, Len(s) - 1)) + s[Len(s)]

\* `${prefix}${year}-${String(count + 1).padStart(4, '0')}`
FormatNumber(prefix, y, count) ==
    [prefix |-> prefix, year |-> y, seq |-> padStart(Digits(count + 1), 4)]

\* SELECT COUNT(*) FROM <table> WHERE <number column> LIKE '<prefix><year>-%'
CountLike(table, prefix, y) ==
    Cardinality({d \in DOMAIN table :
                    table[d].number.prefix = prefix /\ table[d].number.year = y})

generateQuoteNumber == FormatNumber("Q", year, CountLike(quotes, "Q", year))
generateInvoiceNumber == FormatNumber("INV", year, CountLike(invoices, "INV", year))
generateDeliveryNumber == FormatNumber("DN", year, CountLike(delivery_notes, "DN", year))

NumberTaken_Never(table, number) == FALSE

\* UNIQUE constraint of the number column.
NumberTaken(table, number) == \E d \in DOMAIN table : table[d].number = number

\* ------------------------------------------------------------ row helpers
Remove(table, ids) == [i \in DOMAIN table \ ids |-> table[i]]

RECURSIVE SumOver(_, _)
SumOver(items, ids) ==
    IF ids = {} THEN 0
    ELSE LET i == CHOOSE x \in ids : TRUE
         IN items[i].total_price + SumOver(items, ids \ {i})

\* SELECT COALESCE(SUM(total_price), 0) FROM <items> WHERE <parent id column> = ?
Subtotal(items, docId) == SumOver(items, {i \in DOMAIN items : items[i].doc_id = docId})

Totals_TaxNotDivided(items, docId, tax_rate) ==
    LET subtotal == Subtotal(items, docId)
        taxAmount == subtotal * tax_rate
    IN [subtotal |-> subtotal, tax_amount |-> taxAmount,
        total_amount |-> subtotal + taxAmount]

\* The three derived columns as recalculate*Totals writes them.
Totals(items, docId, tax_rate) ==
    LET subtotal == Subtotal(items, docId)
        taxAmount == (subtotal * tax_rate) \div 100
    IN [subtotal |-> subtotal, tax_amount |-> taxAmount,
        total_amount |-> subtotal + taxAmount]

recalculateTotals_Skipped(docs, items, docId) == docs

\* UPDATE <documents> SET subtotal = ?, tax_amount = ?, total_amount = ? WHERE id = ?
recalculateTotals(docs, items, docId) ==
    LET t == Totals(items, docId, docs[docId].tax_rate)
    IN [docs EXCEPT ![docId].subtotal = t.subtotal,
                    ![docId].tax_amount = t.tax_amount,
                    ![docId].total_amount = t.total_amount]

recalculateQuoteTotals(qs, items, quoteId) == recalculateTotals(qs, items, quoteId)
recalculateInvoiceTotals(is, items, invoiceId) == recalculateTotals(is, items, invoiceId)

\* ------------------------------------------------------------------- init
\* INSERT INTO users (username, email, ..., role); is_active defaults to 1.
UserRow(username, email, role) ==
    [username |-> username, email |-> email, role |-> role, is_active |-> TRUE]

Init ==
    /\ users = (1 :> UserRow(1, 1, "admin")) @@ (2 :> UserRow(2, 2, "user"))
    /\ customers = <<>>
    /\ equipment = <<>>
    /\ projects = <<>>
    /\ project_equipment = <<>>
    /\ quotes = <<>>
    /\ quote_items = <<>>
    /\ invoices = <<>>
    /\ invoice_items = <<>>
    /\ delivery_notes = <<>>
    /\ lastId = [users |-> 2, customers |-> 0,
                 equipment |-> 0, projects |-> 0, project_equipment |-> 0,
                 quotes |-> 0, quote_items |-> 0, invoices |-> 0,
                 invoice_items |-> 0, delivery_notes |-> 0]
    /\ year = FirstYear
    /\ issued = {}
    /\ last = Response("none", NULL, NULL, NULL, 0)
    /\ reqs = <<>>


\* ----------------------------------------------------------------- quotes
quoteTerminal_Never(status) == FALSE

\* if (quote.status === 'accepted') -> 400 'Cannot modify accepted quotes'
quoteTerminal(status) == status = "accepted"

QuoteRow(number, projectId, taxRate, status, u) ==
    [number |-> number, project_id |-> projectId, tax_rate |-> taxRate,
     status |-> status, created_by |-> u,
     subtotal |-> 0, tax_amount |-> 0, total_amount |-> 0]

ItemRow_UnitPriceOnly(docId, equipmentId, quantity, unitPrice) ==
    [doc_id |-> docId, equipment_id |-> equipmentId, quantity |-> quantity,
     unit_price |-> unitPrice, total_price |-> unitPrice]

\* const totalPrice = quantity * unitPrice; INSERT INTO quote_items / invoice_items
ItemRow(docId, equipmentId, quantity, unitPrice) ==
    [doc_id |-> docId, equipment_id |-> equipmentId, quantity |-> quantity,
     unit_price |-> unitPrice, total_price |-> quantity * unitPrice]

\* POST /api/quotes
CreateQuote(u, projectId, taxRate, status) ==
    /\ IF ~protect(u) THEN Reject("createQuote", u, NULL, NULL, 401)
       ELSE IF projectId # NULL /\ projectId \notin DOMAIN projects
       THEN Reject("createQuote", u, NULL, NULL, 404)
       ELSE LET quoteNumber == generateQuoteNumber
                id == lastId.quotes + 1
            IN IF NumberTaken(quotes, quoteNumber)
               THEN Reject("createQuote", u, NULL, NULL, 500)
               ELSE /\ quotes' = quotes @@ (id :> QuoteRow(quoteNumber, projectId, taxRate, status, u))
                    /\ lastId' = [lastId EXCEPT !.quotes = id]
                    /\ issued' = issued \cup {quoteNumber}
                    /\ last' = Response("createQuote", u, id, NULL, 201)
                    /\ UNCHANGED <<users, equipment, projects, project_equipment,
                                   quote_items, invoices, invoice_items, delivery_notes>>
    /\ UNCHANGED <<customers, year, reqs>>

\* PUT /api/quotes/:id
UpdateQuote(u, id, projectId, taxRate, status) ==
    /\ IF ~protect(u) THEN Reject("updateQuote", u, id, NULL, 401)
       ELSE IF id \notin DOMAIN quotes THEN Reject("updateQuote", u, id, NULL, 404)
       ELSE IF ~canModify(u, quotes[id].created_by) THEN Reject("updateQuote", u, id, NULL, 403)
       ELSE IF quoteTerminal(quotes[id].status) THEN Reject("updateQuote", u, id, NULL, 400)
       ELSE IF projectId # NULL /\ projectId \notin DOMAIN projects
       THEN Reject("updateQuote", u, id, NULL, 404)
       ELSE /\ quotes' = recalculateQuoteTotals(
                            [quotes EXCEPT ![id].project_id = projectId,
                                           ![id].tax_rate = taxRate,
                                           ![id].status = status],
                            quote_items, id)
            /\ last' = Response("updateQuote", u, id, NULL, 200)
            /\ UNCHANGED <<users, equipment, projects, project_equipment, quote_items,
                           invoices, invoice_items, delivery_notes, lastId, issued>>
    /\ UNCHANGED <<customers, year, reqs>>

\* DELETE /api/quotes/:id  (quote_items cascade; invoices.quote_id restricts)
DeleteQuote(u, id) ==
    /\ IF ~protect(u) THEN Reject("deleteQuote", u, id, NULL, 401)
       ELSE IF ~authorize(u, {"admin", "manager"}) THEN Reject("deleteQuote", u, id, NULL, 403)
       ELSE IF id \notin DOMAIN quotes THEN Reject("deleteQuote", u, id, NULL, 404)
       ELSE IF \E i \in DOMAIN invoices : invoices[i].quote_id = id
       THEN Reject("deleteQuote", u, id, NULL, 500)
       ELSE /\ quotes' = Remove(quotes, {id})
            /\ quote_items' = Remove(quote_items,
                                     {i \in DOMAIN quote_items : quote_items[i].doc_id = id})
            /\ last' = Response("deleteQuote", u, id, NULL, 200)
            /\ UNCHANGED <<users, equipment, projects, project_equipment,
                           invoices, invoice_items, delivery_notes, lastId, issued>>
    /\ UNCHANGED <<customers, year, reqs>>

\* POST /api/quotes/:id/items
AddQuoteItem(u, id, equipmentId, quantity, unitPrice) ==
    /\ IF ~protect(u) THEN Reject("addQuoteItem", u, id, NULL, 401)
       ELSE IF id \notin DOMAIN quotes THEN Reject("addQuoteItem", u, id, NULL, 404)
       ELSE IF ~canModify(u, quotes[id].created_by) THEN Reject("addQuoteItem", u, id, NULL, 403)
       ELSE IF quoteTerminal(quotes[id].status) THEN Reject("addQuoteItem", u, id, NULL, 400)
       ELSE IF equipmentId # NULL /\ equipmentId \notin DOMAIN equipment
       THEN Reject("addQuoteItem", u, id, NULL, 404)
       ELSE LET itemId == lastId.quote_items + 1
                items == quote_items @@ (itemId :> ItemRow(id, equipmentId, quantity, unitPrice))
            IN /\ quote_items' = items
               /\ lastId' = [lastId EXCEPT !.quote_items = itemId]
               /\ quotes' = recalculateQuoteTotals(quotes, items, id)
               /\ last' = Response("addQuoteItem", u, id, itemId, 201)
               /\ UNCHANGED <<users, equipment, projects, project_equipment,
                              invoices, invoice_items, delivery_notes, issued>>
    /\ UNCHANGED <<customers, year, reqs>>

\* PUT /api/quotes/:id/items/:itemId  (equipment_id is a foreign key)
UpdateQuoteItem(u, id, itemId, equipmentId, quantity, unitPrice) ==
    /\ IF ~protect(u) THEN Reject("updateQuoteItem", u, id, itemId, 401)
       ELSE IF id \notin DOMAIN quotes THEN Reject("updateQuoteItem", u, id, itemId, 404)
       ELSE IF quoteTerminal(quotes[id].status) THEN Reject("updateQuoteItem", u, id, itemId, 400)
       ELSE IF ~(itemId \in DOMAIN quote_items /\ quote_items[itemId].doc_id = id)
       THEN Reject("updateQuoteItem", u, id, itemId, 404)
       ELSE IF equipmentId # NULL /\ equipmentId \notin DOMAIN equipment
       THEN Reject("updateQuoteItem", u, id, itemId, 500)
       ELSE LET items == [quote_items EXCEPT ![itemId] = ItemRow(id, equipmentId, quantity, unitPrice)]
            IN /\ quote_items' = items
               /\ quotes' = recalculateQuoteTotals(quotes, items, id)
               /\ last' = Response("updateQuoteItem", u, id, itemId, 200)
               /\ UNCHANGED <<users, equipment, projects, project_equipment,
                              invoices, invoice_items, delivery_notes, lastId, issued>>
    /\ UNCHANGED <<customers, year, reqs>>

\* DELETE /api/quotes/:id/items/:itemId
DeleteQuoteItem(u, id, itemId) ==
    /\ IF ~protect(u) THEN Reject("deleteQuoteItem", u, id, itemId, 401)
       ELSE IF id \notin DOMAIN quotes THEN Reject("deleteQuoteItem", u, id, itemId, 404)
       ELSE IF quoteTerminal(quotes[id].status) THEN Reject("deleteQuoteItem", u, id, itemId, 400)
       ELSE LET items == Remove(quote_items,
                                {i \in DOMAIN quote_items :
                                    i = itemId /\ quote_items[i].doc_id = id})
            IN /\ quote_items' = items
               /\ quotes' = recalculateQuoteTotals(quotes, items, id)
               /\ last' = Response("deleteQuoteItem", u, id, itemId, 200)
               /\ UNCHANGED <<users, equipment, projects, project_equipment,
                              invoices, invoice_items, delivery_notes, lastId, issued>>
    /\ UNCHANGED <<customers, year, reqs>>

\* --------------------------------------------------------------- invoices
invoiceTerminal_Never(status) == FALSE

\* if (invoice.status === 'paid') -> 400 'Cannot modify paid invoices'
invoiceTerminal(status) == status = "paid"

InvoiceRow(number, projectId, quoteId, taxRate, status, u) ==
    [number |-> number, project_id |-> projectId, quote_id |-> quoteId,
     tax_rate |-> taxRate, status |-> status, created_by |-> u,
     subtotal |-> 0, tax_amount |-> 0, total_amount |-> 0]

\* POST /api/invoices
CreateInvoice(u, projectId, quoteId, taxRate, status) ==
    /\ IF ~protect(u) THEN Reject("createInvoice", u, NULL, NULL, 401)
       ELSE IF projectId # NULL /\ projectId \notin DOMAIN projects
       THEN Reject("createInvoice", u, NULL, NULL, 404)
       ELSE IF quoteId # NULL /\ quoteId \notin DOMAIN quotes
       THEN Reject("createInvoice", u, NULL, NULL, 404)
       ELSE LET invoiceNumber == generateInvoiceNumber
                id == lastId.invoices + 1
            IN IF NumberTaken(invoices, invoiceNumber)
               THEN Reject("createInvoice", u, NULL, NULL, 500)
               ELSE /\ invoices' = invoices @@
                        (id :> InvoiceRow(invoiceNumber, projectId, quoteId, taxRate, status, u))
                    /\ lastId' = [lastId EXCEPT !.invoices = id]
                    /\ issued' = issued \cup {invoiceNumber}
                    /\ last' = Response("createInvoice", u, id, NULL, 201)
                    /\ UNCHANGED <<users, equipment, projects, project_equipment, quotes,
                                   quote_items, invoice_items, delivery_notes>>
    /\ UNCHANGED <<customers, year, reqs>>

\* PUT /api/invoices/:id  (project_id and quote_id are foreign keys, not checked first)
UpdateInvoice(u, id, projectId, quoteId, taxRate, status) ==
    /\ IF ~protect(u) THEN Reject("updateInvoice", u, id, NULL, 401)
       ELSE IF id \notin DOMAIN invoices THEN Reject("updateInvoice", u, id, NULL, 404)
       ELSE IF ~canModify(u, invoices[id].created_by) THEN Reject("updateInvoice", u, id, NULL, 403)
       ELSE IF invoiceTerminal(invoices[id].status) THEN Reject("updateInvoice", u, id, NULL, 400)
       ELSE IF \/ projectId # NULL /\ projectId \notin DOMAIN projects
               \/ quoteId # NULL /\ quoteId \notin DOMAIN quotes
       THEN Reject("updateInvoice", u, id, NULL, 500)
       ELSE /\ invoices' = recalculateInvoiceTotals(
                              [invoices EXCEPT ![id].project_id = projectId,
                                               ![id].quote_id = quoteId,
                                               ![id].tax_rate = taxRate,
                                               ![id].status = status],
                              invoice_items, id)
            /\ last' = Response("updateInvoice", u, id, NULL, 200)
            /\ UNCHANGED <<users, equipment, projects, project_equipment, quotes, quote_items,
                           invoice_items, delivery_notes, lastId, issued>>
    /\ UNCHANGED <<customers, year, reqs>>

\* DELETE /api/invoices/:id  (invoice_items cascade)
DeleteInvoice(u, id) ==
    /\ IF ~protect(u) THEN Reject("deleteInvoice", u, id, NULL, 401)
       ELSE IF ~authorize(u, {"admin", "manager"}) THEN Reject("deleteInvoice", u, id, NULL, 403)
       ELSE IF id \notin DOMAIN invoices THEN Reject("deleteInvoice", u, id, NULL, 404)
       ELSE /\ invoices' = Remove(invoices, {id})
            /\ invoice_items' = Remove(invoice_items,
                                       {i \in DOMAIN invoice_items : invoice_items[i].doc_id = id})
            /\ last' = Response("deleteInvoice", u, id, NULL, 200)
            /\ UNCHANGED <<users, equipment, projects, project_equipment, quotes,
                           quote_items, delivery_notes, lastId, issued>>
    /\ UNCHANGED <<customers, year, reqs>>

\* POST /api/invoices/:id/items
AddInvoiceItem(u, id, equipmentId, quantity, unitPrice) ==
    /\ IF ~protect(u) THEN Reject("addInvoiceItem", u, id, NULL, 401)
       ELSE IF id \notin DOMAIN invoices THEN Reject("addInvoiceItem", u, id, NULL, 404)
       ELSE IF invoiceTerminal(invoices[id].status) THEN Reject("addInvoiceItem", u, id, NULL, 400)
       ELSE IF equipmentId # NULL /\ equipmentId \notin DOMAIN equipment
       THEN Reject("addInvoiceItem", u, id, NULL, 404)
       ELSE LET itemId == lastId.invoice_items + 1
                items == invoice_items @@ (itemId :> ItemRow(id, equipmentId, quantity, unitPrice))
            IN /\ invoice_items' = items
               /\ lastId' = [lastId EXCEPT !.invoice_items = itemId]
               /\ invoices' = recalculateInvoiceTotals(invoices, items, id)
               /\ last' = Response("addInvoiceItem", u, id, itemId, 201)
               /\ UNCHANGED <<users, equipment, projects, project_equipment, quotes,
                              quote_items, delivery_notes, issued>>
    /\ UNCHANGED <<customers, year, reqs>>

\* ---------------------------------------------------- document specification
ActingUsers == DOMAIN users
QuoteIds == 1..MaxQuoteId
InvoiceIds == 1..MaxInvoiceId
QuoteItemIds == 1..MaxQuoteItemId
EquipmentRefs == {NULL, 1}
ProjectRefs == {NULL, 1}
QuoteRefs == {NULL, 1}

\* The request sequences explored: quotes and invoices live in separate tables
\* that only the invoices.quote_id foreign key connects, so line items are
\* worked on quotes before the first invoice is created, and invoices are
\* worked on quotes that carry no line items.
QuotePhase == lastId.invoices = 0
InvoicePhase == lastId.quote_items = 0

NextDoc ==
    \/ \E u \in ActingUsers, p \in ProjectRefs, t \in TaxRates, s \in QuoteStatuses :
          QuotePhase /\ lastId.quotes < MaxQuoteId /\ CreateQuote(u, p, t, s)
    \/ \E u \in ActingUsers, id \in QuoteIds, p \in ProjectRefs, t \in TaxRates,
          s \in QuoteStatuses : QuotePhase /\ UpdateQuote(u, id, p, t, s)
    \/ \E u \in ActingUsers, id \in QuoteIds : DeleteQuote(u, id)
    \/ \E u \in ActingUsers, id \in QuoteIds, e \in EquipmentRefs, n \in Quantities,
          c \in UnitPrices :
          QuotePhase /\ lastId.quote_items < MaxQuoteItemId /\ AddQuoteItem(u, id, e, n, c)
    \/ \E u \in ActingUsers, id \in QuoteIds, i \in QuoteItemIds, e \in EquipmentRefs,
          n \in Quantities, c \in UnitPrices :
          QuotePhase /\ UpdateQuoteItem(u, id, i, e, n, c)
    \/ \E u \in ActingUsers, id \in QuoteIds, i \in QuoteItemIds :
          QuotePhase /\ DeleteQuoteItem(u, id, i)
    \/ \E u \in ActingUsers, p \in ProjectRefs, q \in QuoteRefs, t \in TaxRates,
          s \in InvoiceStatuses :
          InvoicePhase /\ lastId.invoices < MaxInvoiceId /\ CreateInvoice(u, p, q, t, s)
    \/ \E u \in ActingUsers, id \in InvoiceIds, p \in ProjectRefs, q \in QuoteRefs,
          t \in TaxRates, s \in InvoiceStatuses : UpdateInvoice(u, id, p, q, t, s)
    \/ \E u \in ActingUsers, id \in InvoiceIds : DeleteInvoice(u, id)
    \/ \E u \in ActingUsers, id \in InvoiceIds, e \in EquipmentRefs, n \in Quantities,
          c \in UnitPrices :
          lastId.invoice_items < MaxInvoiceItemId /\ AddInvoiceItem(u, id, e, n, c)

SpecDoc == Init /\ [][NextDoc]_vars


\* -------------------------------------------------------------- equipment
EquipmentRow(serialNumber, isAvailable) ==
    [serial_number |-> serialNumber, is_available |-> isAvailable]

SerialTaken_Never(serialNumber, exceptId) == FALSE

\* SELECT id FROM equipment WHERE serial_number = ? AND id != ?
SerialTaken(serialNumber, exceptId) ==
    \E e \in DOMAIN equipment \ {exceptId} : equipment[e].serial_number = serialNumber

\* Rows whose equipment_id foreign key names the equipment.
EquipmentReferenced(id) ==
    \/ \E a \in DOMAIN project_equipment : project_equipment[a].equipment_id = id
    \/ \E i \in DOMAIN quote_items : quote_items[i].equipment_id = id
    \/ \E i \in DOMAIN invoice_items : invoice_items[i].equipment_id = id

\* POST /api/equipment
CreateEquipment(u, serialNumber, isAvailable) ==
    /\ IF ~protect(u) THEN Reject("createEquipment", u, NULL, NULL, 401)
       ELSE IF ~authorize(u, {"admin", "manager"})
       THEN Reject("createEquipment", u, NULL, NULL, 403)
       ELSE IF serialNumber # NULL /\ SerialTaken(serialNumber, NULL)
       THEN Reject("createEquipment", u, NULL, NULL, 400)
       ELSE LET id == lastId.equipment + 1
            IN /\ equipment' = equipment @@ (id :> EquipmentRow(serialNumber, isAvailable))
               /\ lastId' = [lastId EXCEPT !.equipment = id]
               /\ last' = Response("createEquipment", u, id, NULL, 201)
               /\ UNCHANGED <<users, projects, project_equipment, quotes, quote_items,
                              invoices, invoice_items, delivery_notes, issued>>
    /\ UNCHANGED <<customers, year, reqs>>

\* PUT /api/equipment/:id
UpdateEquipment(u, id, serialNumber, isAvailable) ==
    /\ IF ~protect(u) THEN Reject("updateEquipment", u, id, NULL, 401)
       ELSE IF ~authorize(u, {"admin", "manager"})
       THEN Reject("updateEquipment", u, id, NULL, 403)
       ELSE IF id \notin DOMAIN equipment THEN Reject("updateEquipment", u, id, NULL, 404)
       ELSE IF serialNumber # NULL /\ SerialTaken(serialNumber, id)
       THEN Reject("updateEquipment", u, id, NULL, 400)
       ELSE /\ equipment' = [equipment EXCEPT ![id] = EquipmentRow(serialNumber, isAvailable)]
            /\ last' = Response("updateEquipment", u, id, NULL, 200)
            /\ UNCHANGED <<users, projects, project_equipment, quotes, quote_items,
                           invoices, invoice_items, delivery_notes, lastId, issued>>
    /\ UNCHANGED <<customers, year, reqs>>

AllocatedToActiveProject_Never(id) == FALSE

\* SELECT pe.id FROM project_equipment pe JOIN projects p ON pe.project_id = p.id
\*  WHERE pe.equipment_id = ? AND p.status IN ('planning', 'active')
AllocatedToActiveProject(id) ==
    \E a \in DOMAIN project_equipment :
        /\ project_equipment[a].equipment_id = id
        /\ projects[project_equipment[a].project_id].status \in {"planning", "active"}

\* DELETE /api/equipment/:id
DeleteEquipment(u, id) ==
    /\ IF ~protect(u) THEN Reject("deleteEquipment", u, id, NULL, 401)
       ELSE IF ~authorize(u, {"admin"}) THEN Reject("deleteEquipment", u, id, NULL, 403)
       ELSE IF id \notin DOMAIN equipment THEN Reject("deleteEquipment", u, id, NULL, 404)
       ELSE IF AllocatedToActiveProject(id) THEN Reject("deleteEquipment", u, id, NULL, 400)
       ELSE IF EquipmentReferenced(id) THEN Reject("deleteEquipment", u, id, NULL, 500)
       ELSE /\ equipment' = Remove(equipment, {id})
            /\ last' = Response("deleteEquipment", u, id, NULL, 200)
            /\ UNCHANGED <<users, projects, project_equipment, quotes, quote_items,
                           invoices, invoice_items, delivery_notes, lastId, issued>>
    /\ UNCHANGED <<customers, year, reqs>>

\* --------------------------------------------------------------- projects
ProjectRow(startDate, endDate, status, u) ==
    [start_date |-> startDate, end_date |-> endDate, status |-> status, created_by |-> u]

\* Rows whose project_id foreign key names the project without ON DELETE CASCADE.
ProjectReferenced(id) ==
    \/ \E q \in DOMAIN quotes : quotes[q].project_id = id
    \/ \E i \in DOMAIN invoices : invoices[i].project_id = id
    \/ \E d \in DOMAIN delivery_notes : delivery_notes[d].project_id = id

EndNotAfterStart_EqualAllowed(startDate, endDate) == startDate > endDate

\* if (new Date(startDate) >= new Date(endDate)) -> 400 'End date must be after start date'
EndNotAfterStart(startDate, endDate) == startDate >= endDate

\* POST /api/projects
CreateProject(u, startDate, endDate, status) ==
    /\ IF ~protect(u) THEN Reject("createProject", u, NULL, NULL, 401)
       ELSE IF EndNotAfterStart(startDate, endDate) THEN Reject("createProject", u, NULL, NULL, 400)
       ELSE LET id == lastId.projects + 1
            IN /\ projects' = projects @@ (id :> ProjectRow(startDate, endDate, status, u))
               /\ lastId' = [lastId EXCEPT !.projects = id]
               /\ last' = Response("createProject", u, id, NULL, 201)
               /\ UNCHANGED <<users, equipment, project_equipment, quotes, quote_items,
                              invoices, invoice_items, delivery_notes, issued>>
    /\ UNCHANGED <<customers, year, reqs>>

\* PUT /api/projects/:id
UpdateProject(u, id, startDate, endDate, status) ==
    /\ IF ~protect(u) THEN Reject("updateProject", u, id, NULL, 401)
       ELSE IF id \notin DOMAIN projects THEN Reject("updateProject", u, id, NULL, 404)
       ELSE IF ~canModify(u, projects[id].created_by)
       THEN Reject("updateProject", u, id, NULL, 403)
       ELSE IF EndNotAfterStart(startDate, endDate) THEN Reject("updateProject", u, id, NULL, 400)
       ELSE /\ projects' = [projects EXCEPT ![id].start_date = startDate,
                                            ![id].end_date = endDate,
                                            ![id].status = status]
            /\ last' = Response("updateProject", u, id, NULL, 200)
            /\ UNCHANGED <<users, equipment, project_equipment, quotes, quote_items,
                           invoices, invoice_items, delivery_notes, lastId, issued>>
    /\ UNCHANGED <<customers, year, reqs>>

\* DELETE /api/projects/:id  (project_equipment rows cascade)
DeleteProject(u, id) ==
    /\ IF ~protect(u) THEN Reject("deleteProject", u, id, NULL, 401)
       ELSE IF ~authorize(u, {"admin", "manager"})
       THEN Reject("deleteProject", u, id, NULL, 403)
       ELSE IF id \notin DOMAIN projects THEN Reject("deleteProject", u, id, NULL, 404)
       ELSE IF ProjectReferenced(id) THEN Reject("deleteProject", u, id, NULL, 500)
       ELSE /\ projects' = Remove(projects, {id})
            /\ project_equipment' =
                   Remove(project_equipment,
                          {a \in DOMAIN project_equipment :
                              project_equipment[a].project_id = id})
            /\ last' = Response("deleteProject", u, id, NULL, 200)
            /\ UNCHANGED <<users, equipment, quotes, quote_items, invoices,
                           invoice_items, delivery_notes, lastId, issued>>
    /\ UNCHANGED <<customers, year, reqs>>

\* ------------------------------------------------------------- allocation
AllocationRow(projectId, equipmentId) ==
    [project_id |-> projectId, equipment_id |-> equipmentId, returned_date |-> "NULL"]

\* SELECT ... WHERE project_id = ? AND equipment_id = ? AND returned_date IS NULL
OpenAllocations(projectId, equipmentId) ==
    {a \in DOMAIN project_equipment :
        /\ project_equipment[a].project_id = projectId
        /\ project_equipment[a].equipment_id = equipmentId
        /\ project_equipment[a].returned_date = "NULL"}

existingAllocation_Skipped(projectId, equipmentId) == FALSE

\* SELECT id FROM project_equipment WHERE project_id = ? AND equipment_id = ?
existingAllocation(projectId, equipmentId) ==
    \E a \in DOMAIN project_equipment :
        /\ project_equipment[a].project_id = projectId
        /\ project_equipment[a].equipment_id = equipmentId

markReturned_DeletesRow(rows, allocation) == Remove(rows, {allocation})

\* UPDATE project_equipment SET returned_date = CURRENT_DATE WHERE id = ?
markReturned(rows, allocation) ==
    [rows EXCEPT ![allocation].returned_date = "CURRENT_DATE"]

setAvailable_NoWhere(rows, equipmentId, flag) ==
    [e \in DOMAIN rows |-> [rows[e] EXCEPT !.is_available = flag]]

\* UPDATE equipment SET is_available = ? WHERE id = ?
setAvailable(rows, equipmentId, flag) ==
    [e \in DOMAIN rows |->
        IF e = equipmentId THEN [rows[e] EXCEPT !.is_available = flag] ELSE rows[e]]

\* POST /api/projects/:id/equipment  (UNIQUE(project_id, equipment_id) on the INSERT)
AllocateEquipment(u, id, equipmentId) ==
    /\ IF ~protect(u) THEN Reject("allocateEquipment", u, id, equipmentId, 401)
       ELSE IF id \notin DOMAIN projects THEN Reject("allocateEquipment", u, id, equipmentId, 404)
       ELSE IF projects[id].status \in {"completed", "cancelled"}
       THEN Reject("allocateEquipment", u, id, equipmentId, 400)
       ELSE IF equipmentId \notin DOMAIN equipment
       THEN Reject("allocateEquipment", u, id, equipmentId, 404)
       ELSE IF ~equipment[equipmentId].is_available
       THEN Reject("allocateEquipment", u, id, equipmentId, 400)
       ELSE IF existingAllocation(id, equipmentId)
       THEN Reject("allocateEquipment", u, id, equipmentId, 400)
       ELSE IF \E a \in DOMAIN project_equipment :
                   /\ project_equipment[a].project_id = id
                   /\ project_equipment[a].equipment_id = equipmentId
       THEN Reject("allocateEquipment", u, id, equipmentId, 500)
       ELSE LET allocationId == lastId.project_equipment + 1
            IN /\ project_equipment' =
                      project_equipment @@ (allocationId :> AllocationRow(id, equipmentId))
               /\ lastId' = [lastId EXCEPT !.project_equipment = allocationId]
               /\ equipment' = setAvailable(equipment, equipmentId, FALSE)
               /\ last' = Response("allocateEquipment", u, id, equipmentId, 201)
               /\ UNCHANGED <<users, projects, quotes, quote_items, invoices,
                              invoice_items, delivery_notes, issued>>
    /\ UNCHANGED <<customers, year, reqs>>

\* PUT /api/projects/:id/equipment/:equipmentId
ReturnEquipment(u, id, equipmentId) ==
    /\ IF ~protect(u) THEN Reject("returnEquipment", u, id, equipmentId, 401)
       ELSE IF OpenAllocations(id, equipmentId) = {}
       THEN Reject("returnEquipment", u, id, equipmentId, 404)
       ELSE LET allocation == CHOOSE a \in OpenAllocations(id, equipmentId) : TRUE
            IN /\ project_equipment' = markReturned(project_equipment, allocation)
               /\ equipment' = setAvailable(equipment, equipmentId, TRUE)
               /\ last' = Response("returnEquipment", u, id, equipmentId, 200)
               /\ UNCHANGED <<users, projects, quotes, quote_items, invoices,
                              invoice_items, delivery_notes, lastId, issued>>
    /\ UNCHANGED <<customers, year, reqs>>

\* ------------------------------------------------- allocation specification
\* Requests of an administrator (every role gate passes), equipment without
\* serial numbers.
AllocUsers == {1}
AllocSerials == {NULL}
EquipmentIds == 1..MaxEquipmentId
ProjectIds == 1..MaxProjectId

NextAlloc ==
    \/ \E u \in AllocUsers, sn \in AllocSerials, av \in BOOLEAN :
          lastId.equipment < MaxEquipmentId /\ CreateEquipment(u, sn, av)
    \/ \E u \in AllocUsers, id \in EquipmentIds, sn \in AllocSerials, av \in BOOLEAN :
          UpdateEquipment(u, id, sn, av)
    \/ \E u \in AllocUsers, id \in EquipmentIds : DeleteEquipment(u, id)
    \/ \E u \in AllocUsers, sd \in Dates, ed \in Dates, s \in ProjectStatuses :
          lastId.projects < MaxProjectId /\ CreateProject(u, sd, ed, s)
    \/ \E u \in AllocUsers, id \in ProjectIds, sd \in Dates, ed \in Dates,
          s \in ProjectStatuses : UpdateProject(u, id, sd, ed, s)
    \/ \E u \in AllocUsers, id \in ProjectIds : DeleteProject(u, id)
    \/ \E u \in AllocUsers, id \in ProjectIds, e \in EquipmentIds :
          lastId.project_equipment < MaxAllocationId /\ AllocateEquipment(u, id, e)
    \/ \E u \in AllocUsers, id \in ProjectIds, e \in EquipmentIds : ReturnEquipment(u, id, e)

SpecAlloc == Init /\ [][NextAlloc]_vars

\* --------------------------------------------------------- delivery notes
DeliveryNoteRow(number, projectId, status, u) ==
    [number |-> number, project_id |-> projectId, status |-> status, created_by |-> u]

\* POST /api/delivery
CreateDeliveryNote(u, projectId, status) ==
    /\ IF ~protect(u) THEN Reject("createDeliveryNote", u, NULL, NULL, 401)
       ELSE IF projectId \notin DOMAIN projects
       THEN Reject("createDeliveryNote", u, NULL, NULL, 404)
       ELSE LET deliveryNumber == generateDeliveryNumber
                id == lastId.delivery_notes + 1
            IN IF NumberTaken(delivery_notes, deliveryNumber)
               THEN Reject("createDeliveryNote", u, NULL, NULL, 500)
               ELSE /\ delivery_notes' = delivery_notes @@
                        (id :> DeliveryNoteRow(deliveryNumber, projectId, status, u))
                    /\ lastId' = [lastId EXCEPT !.delivery_notes = id]
                    /\ issued' = issued \cup {deliveryNumber}
                    /\ last' = Response("createDeliveryNote", u, id, NULL, 201)
                    /\ UNCHANGED <<users, equipment, projects, project_equipment, quotes,
                                   quote_items, invoices, invoice_items>>
    /\ UNCHANGED <<customers, year, reqs>>

\* new Date().getFullYear() moves on to the next calendar year.
NewYear ==
    /\ year' = year + 1
    /\ UNCHANGED <<dbVars, issued, last, reqs>>

\* -------------------------------------------------- numbering specification
\* Requests of an administrator that create and delete documents; the other
\* header fields are left at their defaults.
NumberedQuoteIds == 1..MaxNumberedId
NumberedInvoiceIds == 1..(MaxNumberedId - 1)

NextNum ==
    \/ \E u \in AllocUsers : lastId.quotes < MaxNumberedId /\ CreateQuote(u, NULL, 0, "draft")
    \/ \E u \in AllocUsers, id \in NumberedQuoteIds : DeleteQuote(u, id)
    \/ \E u \in AllocUsers :
          lastId.invoices < MaxNumberedId - 1 /\ CreateInvoice(u, NULL, NULL, 0, "draft")
    \/ \E u \in AllocUsers, id \in NumberedInvoiceIds : DeleteInvoice(u, id)
    \/ \E u \in AllocUsers :
          lastId.projects < 1 /\ CreateProject(u, 1, 2, "planning")
    \/ \E u \in AllocUsers, p \in ProjectRefs :
          lastId.delivery_notes < MaxNumberedId - 1 /\ CreateDeliveryNote(u, p, "pending")
    \/ year < LastYear /\ NewYear

SpecNum == Init /\ [][NextNum]_vars


\* ------------------------------------------- allocation, statement by statement
\* POST /api/projects/:id/equipment as the event loop runs it: the handler
\* yields at every awaited database call, so the calls of two requests in
\* flight interleave. reqs holds the requests received, each with the call it
\* waits for; `allocatable` remembers whether, when the request was received,
\* its project was open and its equipment available.
MaxRequests == 2

AllocationRequest(u, projectId, equipmentId) ==
    [pc |-> "getProject", user |-> u, project |-> projectId, equipment |-> equipmentId,
     code |-> 0,
     allocatable |-> /\ projectId \in DOMAIN projects
                     /\ projects[projectId].status \in {"planning", "active"}
                     /\ equipmentId \in DOMAIN equipment
                     /\ equipment[equipmentId].is_available]

\* next(createError(...)) or res.status(...).json(...): the request is answered.
Respond(r, code) ==
    /\ reqs' = [reqs EXCEPT ![r].pc = "done", ![r].code = code]
    /\ last' = Response("allocateEquipment", reqs[r].user, reqs[r].project,
                        reqs[r].equipment, code)

\* protect, then the handler starts.
ReceiveAllocation(u, projectId, equipmentId) ==
    /\ IF ~protect(u)
       THEN Reject("allocateEquipment", u, projectId, equipmentId, 401) /\ UNCHANGED reqs
       ELSE /\ reqs' = Append(reqs, AllocationRequest(u, projectId, equipmentId))
            /\ UNCHANGED <<dbVars, issued, last>>
    /\ UNCHANGED year

\* SELECT id, status FROM projects WHERE id = ?
GetProject(r) ==
    /\ reqs[r].pc = "getProject"
    /\ IF reqs[r].project \notin DOMAIN projects THEN Respond(r, 404)
       ELSE IF projects[reqs[r].project].status \in {"completed", "cancelled"}
       THEN Respond(r, 400)
       ELSE reqs' = [reqs EXCEPT ![r].pc = "getEquipment"] /\ UNCHANGED last
    /\ UNCHANGED <<dbVars, issued, year>>

\* SELECT id, name, is_available FROM equipment WHERE id = ?
GetEquipment(r) ==
    /\ reqs[r].pc = "getEquipment"
    /\ IF reqs[r].equipment \notin DOMAIN equipment THEN Respond(r, 404)
       ELSE IF ~equipment[reqs[r].equipment].is_available THEN Respond(r, 400)
       ELSE reqs' = [reqs EXCEPT ![r].pc = "getExistingAllocation"] /\ UNCHANGED last
    /\ UNCHANGED <<dbVars, issued, year>>

\* SELECT id FROM project_equipment WHERE project_id = ? AND equipment_id = ?
GetExistingAllocation(r) ==
    /\ reqs[r].pc = "getExistingAllocation"
    /\ IF existingAllocation(reqs[r].project, reqs[r].equipment) THEN Respond(r, 400)
       ELSE reqs' = [reqs EXCEPT ![r].pc = "insertAllocation"] /\ UNCHANGED last
    /\ UNCHANGED <<dbVars, issued, year>>

\* INSERT INTO project_equipment ...  (UNIQUE(project_id, equipment_id), foreign keys)
InsertAllocation(r) ==
    /\ reqs[r].pc = "insertAllocation"
    /\ IF \/ reqs[r].project \notin DOMAIN projects
          \/ reqs[r].equipment \notin DOMAIN equipment
          \/ \E a \in DOMAIN project_equipment :
                /\ project_equipment[a].project_id = reqs[r].project
                /\ project_equipment[a].equipment_id = reqs[r].equipment
       THEN Respond(r, 500) /\ UNCHANGED dbVars
       ELSE LET allocationId == lastId.project_equipment + 1
            IN /\ project_equipment' = project_equipment @@
                      (allocationId :> AllocationRow(reqs[r].project, reqs[r].equipment))
               /\ lastId' = [lastId EXCEPT !.project_equipment = allocationId]
               /\ reqs' = [reqs EXCEPT ![r].pc = "updateAvailability"]
               /\ UNCHANGED <<users, customers, equipment, projects, quotes, quote_items,
                              invoices, invoice_items, delivery_notes, last>>
    /\ UNCHANGED <<issued, year>>

\* UPDATE equipment SET is_available = 0 WHERE id = ?, then the 201 response.
UpdateAvailability(r) ==
    /\ reqs[r].pc = "updateAvailability"
    /\ equipment' = setAvailable(equipment, reqs[r].equipment, FALSE)
    /\ Respond(r, 201)
    /\ UNCHANGED <<users, customers, projects, project_equipment, quotes, quote_items,
                   invoices, invoice_items, delivery_notes, lastId, issued, year>>

\* --------------------------------------------- concurrent allocation specification
\* An administrator creates equipment and projects, then allocation requests
\* arrive and their database calls interleave.
RaceStatuses == {"planning", "completed"}
Requests == 1..MaxRequests

NextRace ==
    \/ \E u \in AllocUsers, av \in BOOLEAN :
          reqs = <<>> /\ lastId.equipment < MaxEquipmentId /\ CreateEquipment(u, NULL, av)
    \/ \E u \in AllocUsers, s \in RaceStatuses :
          reqs = <<>> /\ lastId.projects < MaxProjectId /\ CreateProject(u, 1, 2, s)
    \/ \E u \in AllocUsers, p \in ProjectIds, e \in EquipmentIds :
          Len(reqs) < MaxRequests /\ ReceiveAllocation(u, p, e)
    \/ \E r \in DOMAIN reqs : GetProject(r)
    \/ \E r \in DOMAIN reqs : GetEquipment(r)
    \/ \E r \in DOMAIN reqs : GetExistingAllocation(r)
    \/ \E r \in DOMAIN reqs : InsertAllocation(r)
    \/ \E r \in DOMAIN reqs : UpdateAvailability(r)

SpecRace == Init /\ [][NextRace]_vars

\* ------------------------------------------------------------------ users
Roles == {"admin", "manager", "user"}

\* SELECT id FROM users WHERE username = ? AND id != ?
UsernameTaken(username, exceptId) ==
    \E w \in DOMAIN users \ {exceptId} : users[w].username = username

\* SELECT id FROM users WHERE email = ? AND id != ?
EmailTaken(email, exceptId) ==
    \E w \in DOMAIN users \ {exceptId} : users[w].email = email

\* Rows whose created_by foreign key names the user.
UserReferenced(id) ==
    \/ \E p \in DOMAIN projects : projects[p].created_by = id
    \/ \E q \in DOMAIN quotes : quotes[q].created_by = id
    \/ \E i \in DOMAIN invoices : invoices[i].created_by = id
    \/ \E d \in DOMAIN delivery_notes : delivery_notes[d].created_by = id

\* PUT /api/users/:id  (a field that is not supplied, NULL or "undefined",
\* keeps its value)
UpdateUser(u, id, username, email, role, isActive) ==
    /\ IF ~protect(u) THEN Reject("updateUser", u, id, NULL, 401)
       ELSE IF ~authorize(u, {"admin", "manager"}) THEN Reject("updateUser", u, id, NULL, 403)
       ELSE IF id \notin DOMAIN users THEN Reject("updateUser", u, id, NULL, 404)
       ELSE IF username # NULL /\ UsernameTaken(username, id)
       THEN Reject("updateUser", u, id, NULL, 400)
       ELSE IF email # NULL /\ EmailTaken(email, id)
       THEN Reject("updateUser", u, id, NULL, 400)
       ELSE /\ users' = [users EXCEPT
                           ![id].username = IF username = NULL THEN @ ELSE username,
                           ![id].email = IF email = NULL THEN @ ELSE email,
                           ![id].role = IF role = "undefined" THEN @ ELSE role,
                           ![id].is_active = IF isActive = "undefined" THEN @
                                             ELSE isActive = "true"]
            /\ last' = Response("updateUser", u, id, NULL, 200)
            /\ UNCHANGED <<equipment, projects, project_equipment, quotes, quote_items,
                           invoices, invoice_items, delivery_notes, lastId, issued>>
    /\ UNCHANGED <<customers, year, reqs>>

\* DELETE /api/users/:id  (created_by columns are foreign keys)
DeleteUser(u, id) ==
    /\ IF ~protect(u) THEN Reject("deleteUser", u, id, NULL, 401)
       ELSE IF ~authorize(u, {"admin"}) THEN Reject("deleteUser", u, id, NULL, 403)
       ELSE IF id \notin DOMAIN users THEN Reject("deleteUser", u, id, NULL, 404)
       ELSE IF id = u THEN Reject("deleteUser", u, id, NULL, 400)
       ELSE IF UserReferenced(id) THEN Reject("deleteUser", u, id, NULL, 500)
       ELSE /\ users' = Remove(users, {id})
            /\ last' = Response("deleteUser", u, id, NULL, 200)
            /\ UNCHANGED <<equipment, projects, project_equipment, quotes, quote_items,
                           invoices, invoice_items, delivery_notes, lastId, issued>>
    /\ UNCHANGED <<customers, year, reqs>>

\* ------------------------------------------------------- users specification
\* Requests carrying the token of user 1 or of user 2 (the token outlives a
\* deactivation or deletion of its user): user administration, equipment
\* administration and project creation.
Tokens == {1, 2}
UserIds == {1, 2}
UsernameInputs == {NULL, 1}
EmailInputs == {NULL, 1}
RoleInputs == {"undefined"} \cup Roles
ActiveInputs == {"undefined", "true", "false"}
MaxUsersEquipmentId == 1
MaxUsersProjectId == 1

NextUsers ==
    \/ \E u \in Tokens, id \in UserIds, n \in UsernameInputs, m \in EmailInputs,
          r \in RoleInputs, a \in ActiveInputs : UpdateUser(u, id, n, m, r, a)
    \/ \E u \in Tokens, id \in UserIds : DeleteUser(u, id)
    \/ \E u \in Tokens, av \in BOOLEAN :
          lastId.equipment < MaxUsersEquipmentId /\ CreateEquipment(u, NULL, av)
    \/ \E u \in Tokens, id \in 1..MaxUsersEquipmentId, av \in BOOLEAN :
          UpdateEquipment(u, id, NULL, av)
    \/ \E u \in Tokens, id \in 1..MaxUsersEquipmentId : DeleteEquipment(u, id)
    \/ \E u \in Tokens :
          lastId.projects < MaxUsersProjectId /\ CreateProject(u, 1, 2, "planning")

SpecUsers == Init /\ [][NextUsers]_vars

\* POST /api/auth/register  (public: no protect; the role comes from the body)
Register(username, email, role) ==
    /\ IF EmailTaken(email, NULL) \/ UsernameTaken(username, NULL)
       THEN Reject("register", NULL, NULL, NULL, 400)
       ELSE LET id == lastId.users + 1
            IN /\ users' = users @@ (id :> UserRow(username, email, role))
               /\ lastId' = [lastId EXCEPT !.users = id]
               /\ last' = Response("register", NULL, id, NULL, 201)
               /\ UNCHANGED <<customers, equipment, projects, project_equipment, quotes,
                              quote_items, invoices, invoice_items, delivery_notes, issued>>
    /\ UNCHANGED <<year, reqs>>

\* -------------------------------------------------------------- customers
CustomerRow(email) == [email |-> email]

\* SELECT id FROM customers WHERE email = ? AND id != ?
CustomerEmailTaken(email, exceptId) ==
    \E c \in DOMAIN customers \ {exceptId} : customers[c].email = email

\* POST /api/customers
CreateCustomer(u, email) ==
    /\ IF ~protect(u) THEN Reject("createCustomer", u, NULL, NULL, 401)
       ELSE IF ~authorize(u, {"admin", "manager"})
       THEN Reject("createCustomer", u, NULL, NULL, 403)
       ELSE IF CustomerEmailTaken(email, NULL)
       THEN Reject("createCustomer", u, NULL, NULL, 400)
       ELSE LET id == lastId.customers + 1
            IN /\ customers' = customers @@ (id :> CustomerRow(email))
               /\ lastId' = [lastId EXCEPT !.customers = id]
               /\ last' = Response("createCustomer", u, id, NULL, 201)
               /\ UNCHANGED <<users, equipment, projects, project_equipment, quotes,
                              quote_items, invoices, invoice_items, delivery_notes, issued>>
    /\ UNCHANGED <<year, reqs>>

\* PUT /api/customers/:id
UpdateCustomer(u, id, email) ==
    /\ IF ~protect(u) THEN Reject("updateCustomer", u, id, NULL, 401)
       ELSE IF ~authorize(u, {"admin", "manager"})
       THEN Reject("updateCustomer", u, id, NULL, 403)
       ELSE IF id \notin DOMAIN customers THEN Reject("updateCustomer", u, id, NULL, 404)
       ELSE IF CustomerEmailTaken(email, id) THEN Reject("updateCustomer", u, id, NULL, 400)
       ELSE /\ customers' = [customers EXCEPT ![id] = CustomerRow(email)]
            /\ last' = Response("updateCustomer", u, id, NULL, 200)
            /\ UNCHANGED <<users, equipment, projects, project_equipment, quotes,
                           quote_items, invoices, invoice_items, delivery_notes, lastId,
                           issued>>
    /\ UNCHANGED <<year, reqs>>

\* DELETE /api/customers/:id
DeleteCustomer(u, id) ==
    /\ IF ~protect(u) THEN Reject("deleteCustomer", u, id, NULL, 401)
       ELSE IF ~authorize(u, {"admin"}) THEN Reject("deleteCustomer", u, id, NULL, 403)
       ELSE IF id \notin DOMAIN customers THEN Reject("deleteCustomer", u, id, NULL, 404)
       ELSE /\ customers' = Remove(customers, {id})
            /\ last' = Response("deleteCustomer", u, id, NULL, 200)
            /\ UNCHANGED <<users, equipment, projects, project_equipment, quotes,
                           quote_items, invoices, invoice_items, delivery_notes, lastId,
                           issued>>
    /\ UNCHANGED <<year, reqs>>

\* ------------------------------------------------- uniqueness specification
\* Requests of an administrator that write the columns the schema declares
\* unique: serial numbers, usernames and emails, drawn from two values each so
\* that every request can collide with a stored row.
MaxUniqueUserId == 3
MaxUniqueCustomerId == 2
UniqueSerials == {NULL, 1, 2}
UniqueNames == {1, 3}
UniqueNameInputs == {NULL} \cup UniqueNames
CustomerEmails == {1, 2}

NextUnique ==
    \/ \E u \in AllocUsers, sn \in UniqueSerials :
          lastId.equipment < MaxEquipmentId /\ CreateEquipment(u, sn, TRUE)
    \/ \E u \in AllocUsers, id \in EquipmentIds, sn \in UniqueSerials :
          UpdateEquipment(u, id, sn, TRUE)
    \/ \E n \in UniqueNames, m \in UniqueNames :
          lastId.users < MaxUniqueUserId /\ Register(n, m, "user")
    \/ \E u \in AllocUsers, id \in 2..MaxUniqueUserId, n \in UniqueNameInputs,
          m \in UniqueNameInputs : UpdateUser(u, id, n, m, "undefined", "undefined")
    \/ \E u \in AllocUsers, m \in CustomerEmails :
          lastId.customers < MaxUniqueCustomerId /\ CreateCustomer(u, m)
    \/ \E u \in AllocUsers, id \in 1..MaxUniqueCustomerId, m \in CustomerEmails :
          UpdateCustomer(u, id, m)
    \/ \E u \in AllocUsers, id \in 1..MaxUniqueCustomerId : DeleteCustomer(u, id)

SpecUnique == Init /\ [][NextUnique]_vars

\* ---------------------------------------------------- projects specification
\* Project create, update and delete by an administrator and by a plain user,
\* with every order of start and end date.
ProjectDates == {1, 2, 3}
DatedStatuses == {"planning", "completed"}

NextProjects ==
    \/ \E u \in Tokens, sd \in ProjectDates, ed \in ProjectDates, s \in DatedStatuses :
          lastId.projects < MaxProjectId /\ CreateProject(u, sd, ed, s)
    \/ \E u \in Tokens, id \in ProjectIds, sd \in ProjectDates, ed \in ProjectDates,
          s \in DatedStatuses : UpdateProject(u, id, sd, ed, s)
    \/ \E u \in Tokens, id \in ProjectIds : DeleteProject(u, id)

SpecProjects == Init /\ [][NextProjects]_vars

\* --------------------------------------- quote requests, statement by statement
\* POST /api/quotes/:id/items and PUT /api/quotes/:id as the event loop runs
\* them: each awaited database call is one step, and recalculateQuoteTotals is
\* three calls (sum, tax rate, write) whose results the request holds in
\* between. The requests carry no equipment and no project, so the optional
\* lookups are skipped.
QuoteRequest(op, u, quoteId, quantity, unitPrice, taxRate, status) ==
    [op |-> op, pc |-> "selectQuote", user |-> u, quote |-> quoteId,
     quantity |-> quantity, unit_price |-> unitPrice,
     tax_rate |-> taxRate, status |-> status,
     item |-> NULL, subtotal |-> 0, read_tax_rate |-> 0, code |-> 0]

\* next(createError(...)) or res.status(...).json(...): the request is answered.
Answer(r, code) ==
    /\ reqs' = [reqs EXCEPT ![r].pc = "done", ![r].code = code]
    /\ last' = Response(reqs[r].op, reqs[r].user, reqs[r].quote, reqs[r].item, code)

\* protect, then the add-item handler starts.
ReceiveAddQuoteItem(u, quoteId, quantity, unitPrice) ==
    /\ IF ~protect(u)
       THEN Reject("addQuoteItem", u, quoteId, NULL, 401) /\ UNCHANGED reqs
       ELSE /\ reqs' = Append(reqs, QuoteRequest("addQuoteItem", u, quoteId,
                                                 quantity, unitPrice, 0, "draft"))
            /\ UNCHANGED <<dbVars, issued, last>>
    /\ UNCHANGED year

\* protect, then the update-quote handler starts.
ReceiveUpdateQuote(u, quoteId, taxRate, status) ==
    /\ IF ~protect(u)
       THEN Reject("updateQuote", u, quoteId, NULL, 401) /\ UNCHANGED reqs
       ELSE /\ reqs' = Append(reqs, QuoteRequest("updateQuote", u, quoteId,
                                                 0, 0, taxRate, status))
            /\ UNCHANGED <<dbVars, issued, last>>
    /\ UNCHANGED year

\* SELECT id, created_by, status FROM quotes WHERE id = ?  and the three checks
SelectQuote(r) ==
    /\ reqs[r].pc = "selectQuote"
    /\ IF reqs[r].quote \notin DOMAIN quotes THEN Answer(r, 404)
       ELSE IF ~canModify(reqs[r].user, quotes[reqs[r].quote].created_by)
       THEN Answer(r, 403)
       ELSE IF quoteTerminal(quotes[reqs[r].quote].status) THEN Answer(r, 400)
       ELSE /\ reqs' = [reqs EXCEPT ![r].pc = IF reqs[r].op = "addQuoteItem"
                                              THEN "insertItem" ELSE "updateHeader"]
            /\ UNCHANGED last
    /\ UNCHANGED <<dbVars, issued, year>>

\* INSERT INTO quote_items ...  (quote_id is a foreign key)
InsertQuoteItem(r) ==
    /\ reqs[r].pc = "insertItem"
    /\ IF reqs[r].quote \notin DOMAIN quotes
       THEN Answer(r, 500) /\ UNCHANGED dbVars
       ELSE LET itemId == lastId.quote_items + 1
            IN /\ quote_items' = quote_items @@
                      (itemId :> ItemRow(reqs[r].quote, NULL, reqs[r].quantity,
                                         reqs[r].unit_price))
               /\ lastId' = [lastId EXCEPT !.quote_items = itemId]
               /\ reqs' = [reqs EXCEPT ![r].pc = "selectSubtotal", ![r].item = itemId]
               /\ UNCHANGED <<users, customers, equipment, projects, project_equipment,
                              quotes, invoices, invoice_items, delivery_notes, last>>
    /\ UNCHANGED <<issued, year>>

\* UPDATE quotes SET project_id = ?, ..., tax_rate = ?, status = ?, ... WHERE id = ?
UpdateQuoteHeader(r) ==
    /\ reqs[r].pc = "updateHeader"
    /\ quotes' = [q \in DOMAIN quotes |->
                     IF q = reqs[r].quote
                     THEN [quotes[q] EXCEPT !.project_id = NULL,
                                            !.tax_rate = reqs[r].tax_rate,
                                            !.status = reqs[r].status]
                     ELSE quotes[q]]
    /\ reqs' = [reqs EXCEPT ![r].pc = "selectSubtotal"]
    /\ UNCHANGED <<users, customers, equipment, projects, project_equipment, quote_items,
                   invoices, invoice_items, delivery_notes, lastId, issued, year, last>>

\* SELECT COALESCE(SUM(total_price), 0) as subtotal FROM quote_items WHERE quote_id = ?
SelectSubtotal(r) ==
    /\ reqs[r].pc = "selectSubtotal"
    /\ reqs' = [reqs EXCEPT ![r].pc = "selectTaxRate",
                            ![r].subtotal = Subtotal(quote_items, reqs[r].quote)]
    /\ UNCHANGED <<dbVars, issued, year, last>>

\* SELECT tax_rate FROM quotes WHERE id = ?  (quote.tax_rate of a missing row throws)
SelectTaxRate(r) ==
    /\ reqs[r].pc = "selectTaxRate"
    /\ IF reqs[r].quote \notin DOMAIN quotes THEN Answer(r, 500)
       ELSE /\ reqs' = [reqs EXCEPT ![r].pc = "updateTotals",
                                    ![r].read_tax_rate = quotes[reqs[r].quote].tax_rate]
            /\ UNCHANGED last
    /\ UNCHANGED <<dbVars, issued, year>>

\* UPDATE quotes SET subtotal = ?, tax_amount = ?, total_amount = ? WHERE id = ?,
\* then the response.
UpdateQuoteTotals(r) ==
    /\ reqs[r].pc = "updateTotals"
    /\ LET taxAmount == (reqs[r].subtotal * reqs[r].read_tax_rate) \div 100
       IN quotes' = [q \in DOMAIN quotes |->
                        IF q = reqs[r].quote
                        THEN [quotes[q] EXCEPT !.subtotal = reqs[r].subtotal,
                                               !.tax_amount = taxAmount,
                                               !.total_amount = reqs[r].subtotal + taxAmount]
                        ELSE quotes[q]]
    /\ Answer(r, IF reqs[r].op = "addQuoteItem" THEN 201 ELSE 200)
    /\ UNCHANGED <<users, customers, equipment, projects, project_equipment, quote_items,
                   invoices, invoice_items, delivery_notes, lastId, issued, year>>

\* ------------------------------------------- concurrent quote specification
\* An administrator creates a draft quote, then add-item and update requests
\* on it arrive and their database calls interleave.
RacedQuotes == {1}

NextItemRace ==
    \/ \E u \in AllocUsers, t \in TaxRates :
          reqs = <<>> /\ lastId.quotes < Cardinality(RacedQuotes)
          /\ CreateQuote(u, NULL, t, "draft")
    \/ \E u \in AllocUsers, id \in RacedQuotes, n \in Quantities, c \in UnitPrices :
          Len(reqs) < MaxRequests /\ ReceiveAddQuoteItem(u, id, n, c)
    \/ \E u \in AllocUsers, id \in RacedQuotes, t \in TaxRates, st \in QuoteStatuses :
          Len(reqs) < MaxRequests /\ ReceiveUpdateQuote(u, id, t, st)
    \/ \E r \in DOMAIN reqs : SelectQuote(r)
    \/ \E r \in DOMAIN reqs : InsertQuoteItem(r)
    \/ \E r \in DOMAIN reqs : UpdateQuoteHeader(r)
    \/ \E r \in DOMAIN reqs : SelectSubtotal(r)
    \/ \E r \in DOMAIN reqs : SelectTaxRate(r)
    \/ \E r \in DOMAIN reqs : UpdateQuoteTotals(r)

SpecItemRace == Init /\ [][NextItemRace]_vars

\* ------------------------------------------ quote creation, statement by statement
\* POST /api/quotes as the event loop runs it: the COUNT(*) of
\* generateQuoteNumber and the INSERT are separate awaited calls, and the
\* request holds the number it computed in between. The request names no
\* project, so the project lookup is skipped.
CreateQuoteRequest(u, taxRate) ==
    [op |-> "createQuote", pc |-> "countQuotes", user |-> u, quote |-> NULL,
     item |-> NULL, tax_rate |-> taxRate, number |-> NULL, code |-> 0]

\* protect, then the create handler starts.
ReceiveCreateQuote(u, taxRate) ==
    /\ IF ~protect(u)
       THEN Reject("createQuote", u, NULL, NULL, 401) /\ UNCHANGED reqs
       ELSE /\ reqs' = Append(reqs, CreateQuoteRequest(u, taxRate))
            /\ UNCHANGED <<dbVars, issued, last>>
    /\ UNCHANGED year

\* const quoteNumber = await generateQuoteNumber()
CountQuotes(r) ==
    /\ reqs[r].pc = "countQuotes"
    /\ reqs' = [reqs EXCEPT ![r].pc = "insertQuote", ![r].number = generateQuoteNumber]
    /\ UNCHANGED <<dbVars, issued, year, last>>

\* INSERT INTO quotes (quote_number, ...)  (quote_number is UNIQUE), then the response
InsertQuote(r) ==
    /\ reqs[r].pc = "insertQuote"
    /\ IF NumberTaken(quotes, reqs[r].number)
       THEN Answer(r, 500) /\ UNCHANGED <<dbVars, issued>>
       ELSE LET id == lastId.quotes + 1
            IN /\ quotes' = quotes @@
                      (id :> QuoteRow(reqs[r].number, NULL, reqs[r].tax_rate, "draft",
                                      reqs[r].user))
               /\ lastId' = [lastId EXCEPT !.quotes = id]
               /\ issued' = issued \cup {reqs[r].number}
               /\ reqs' = [reqs EXCEPT ![r].pc = "done", ![r].code = 201, ![r].quote = id]
               /\ last' = Response("createQuote", reqs[r].user, id, NULL, 201)
               /\ UNCHANGED <<users, customers, equipment, projects, project_equipment,
                              quote_items, invoices, invoice_items, delivery_notes>>
    /\ UNCHANGED year

\* ------------------------------------ concurrent quote creation specification
\* Create requests of an administrator arrive and their database calls
\* interleave; quotes are also deleted between them.
MaxCreateRequests == 3

NextCreateRace ==
    \/ \E u \in AllocUsers, t \in TaxRates :
          Len(reqs) < MaxCreateRequests /\ ReceiveCreateQuote(u, t)
    \/ \E r \in DOMAIN reqs : CountQuotes(r)
    \/ \E r \in DOMAIN reqs : InsertQuote(r)
    \/ \E u \in AllocUsers, id \in 1..MaxCreateRequests : DeleteQuote(u, id)

SpecCreateRace == Init /\ [][NextCreateRace]_vars

\* ------------------------------------------------------- roles specification
\* Requests of principals that do not hold role admin: public registration
\* with any role of the schema, and user administration with the tokens of
\* users whose role is not admin at the time of the request.
RegisteredNames == {3}
NonAdmin(u) == IF u \in DOMAIN users THEN users[u].role # "admin" ELSE TRUE

NextRoles ==
    \/ \E n \in RegisteredNames, m \in RegisteredNames, r \in Roles :
          lastId.users < MaxUniqueUserId /\ Register(n, m, r)
    \/ \E u \in 2..MaxUniqueUserId, id \in 1..MaxUniqueUserId, r \in RoleInputs,
          a \in ActiveInputs : NonAdmin(u) /\ UpdateUser(u, id, NULL, NULL, r, a)
    \/ \E u \in 2..MaxUniqueUserId, id \in 1..MaxUniqueUserId :
          NonAdmin(u) /\ DeleteUser(u, id)

SpecRoles == Init /\ [][NextRoles]_vars

\* ------------------------------------------------------------------ claims
ItemsOf(items, docId) == {i \in DOMAIN items : items[i].doc_id = docId}

RECURSIVE SumTotalPrice(_, _)
SumTotalPrice(items, ids) ==
    IF ids = {} THEN 0
    ELSE LET i == CHOOSE x \in ids : TRUE
         IN items[i].total_price + SumTotalPrice(items, ids \ {i})

DerivedFieldsAgree(doc, items, docId) ==
    /\ doc.subtotal = SumTotalPrice(items, ItemsOf(items, docId))
    /\ doc.tax_amount * 100 = doc.subtotal * doc.tax_rate
    /\ doc.total_amount = doc.subtotal + doc.tax_amount

\* C1: between requests, every quote and every invoice has subtotal equal to
\* the sum of its line items' total_price, tax_amount equal to
\* subtotal * tax_rate / 100 and total_amount equal to subtotal + tax_amount.
C1_DerivedTotals ==
    /\ \A q \in DOMAIN quotes : DerivedFieldsAgree(quotes[q], quote_items, q)
    /\ \A i \in DOMAIN invoices : DerivedFieldsAgree(invoices[i], invoice_items, i)

\* A quote with priced line items whose header (tax_rate 10) was just updated.
C1_Witness ==
    /\ last.op = "updateQuote" /\ last.code = 200
    /\ last.a \in DOMAIN quotes
    /\ quotes[last.a].tax_rate = 10
    /\ quotes[last.a].subtotal = 150 * Currency
    /\ quotes[last.a].total_amount = 165 * Currency


\* C2: every allocation row whose returned_date is NULL references an equipment
\* whose is_available flag is false.
C2_OpenAllocationUnavailable ==
    \A a \in DOMAIN project_equipment :
        project_equipment[a].returned_date = "NULL"
            => ~equipment[project_equipment[a].equipment_id].is_available

SameSeries(n, m) == n.prefix = m.prefix /\ n.year = m.year

FreshAndGreater(number) ==
    \A m \in issued :
        SameSeries(number, m) => DigitsValue(number.seq) > DigitsValue(m.seq)

\* C3: within a year, every create of a quote, invoice or delivery note yields
\* a number that differs from every number issued earlier for that type and
\* whose sequence part is greater than all of them.
C3_NumbersIncrease ==
    [][/\ lastId'.quotes # lastId.quotes
            => FreshAndGreater(quotes'[lastId'.quotes].number)
       /\ lastId'.invoices # lastId.invoices
            => FreshAndGreater(invoices'[lastId'.invoices].number)
       /\ lastId'.delivery_notes # lastId.delivery_notes
            => FreshAndGreater(delivery_notes'[lastId'.delivery_notes].number)]_vars


Done(r) == r \in DOMAIN reqs /\ reqs[r].pc = "done"

RowsOfEquipment(equipmentId) ==
    {a \in DOMAIN project_equipment : project_equipment[a].equipment_id = equipmentId}

\* C4: when two allocation requests for the same equipment, both received
\* while it was available and their projects open, have been answered, exactly
\* one got 201, the other got 400, and exactly one allocation row exists for
\* the equipment.
C4_ExactlyOneAllocationWins ==
    \A r1 \in Requests, r2 \in Requests :
        (/\ r1 < r2 /\ Done(r1) /\ Done(r2)
         /\ reqs[r1].equipment = reqs[r2].equipment
         /\ reqs[r1].allocatable /\ reqs[r2].allocatable)
            => /\ {reqs[r1].code, reqs[r2].code} = {201, 400}
               /\ Cardinality(RowsOfEquipment(reqs[r1].equipment)) = 1


DocTables == <<quotes, quote_items, invoices, invoice_items>>

QuoteItemOps == {"addQuoteItem", "updateQuoteItem", "deleteQuoteItem"}

AcceptedQuote(id) == id \in DOMAIN quotes /\ quotes[id].status = "accepted"
PaidInvoice(id) == id \in DOMAIN invoices /\ invoices[id].status = "paid"

\* C5 as stated: every line-item add, update or delete on an accepted quote,
\* and every line-item add on a paid invoice, is answered with 400 and leaves
\* the line items and the derived totals unchanged.
C5_TerminalItemRequest400 ==
    [][/\ (last'.op \in QuoteItemOps /\ AcceptedQuote(last'.a))
            => (last'.code = 400 /\ UNCHANGED DocTables)
       /\ (last'.op = "addInvoiceItem" /\ PaidInvoice(last'.a))
            => (last'.code = 400 /\ UNCHANGED DocTables)]_vars

\* C5 amended: such a request of an authenticated user is rejected and leaves
\* the line items and totals unchanged; the answer is 400, except that an add
\* to a quote by a user who is neither its creator nor admin/manager is
\* answered with 403 (the ownership check comes first).
C5_TerminalItemRequestRejected ==
    [][/\ (last'.op = "addQuoteItem" /\ AcceptedQuote(last'.a)) =>
            /\ last'.code = IF canModify(last'.user, quotes[last'.a].created_by)
                            THEN 400 ELSE 403
            /\ UNCHANGED DocTables
       /\ (last'.op \in {"updateQuoteItem", "deleteQuoteItem"} /\ AcceptedQuote(last'.a))
            => (last'.code = 400 /\ UNCHANGED DocTables)
       /\ (last'.op = "addInvoiceItem" /\ PaidInvoice(last'.a))
            => (last'.code = 400 /\ UNCHANGED DocTables)]_vars

\* A delete of a line item of an accepted quote that carries line items was
\* just rejected.
C5_Witness ==
    /\ last.op = "deleteQuoteItem" /\ last.code = 400
    /\ AcceptedQuote(last.a)
    /\ ItemsOf(quote_items, last.a) # {}
    /\ quotes[last.a].total_amount > 0


QuoteOps == QuoteItemOps \cup {"updateQuote"}
InvoiceOps == {"updateInvoice", "addInvoiceItem"}

ItemRows(items, docId) == [i \in ItemsOf(items, docId) |-> items[i]]

\* The document keeps its header, its totals and its line items.
QuoteKept(id) ==
    /\ id \in DOMAIN quotes' /\ quotes'[id] = quotes[id]
    /\ \/ UNCHANGED quote_items
       \/ ItemRows(quote_items', id) = ItemRows(quote_items, id)

InvoiceKept(id) ==
    /\ id \in DOMAIN invoices' /\ invoices'[id] = invoices[id]
    /\ \/ UNCHANGED invoice_items
       \/ ItemRows(invoice_items', id) = ItemRows(invoice_items, id)

\* C6 as stated: once a quote is accepted or an invoice is paid, a header
\* update or line-item request never changes the document, and each such
\* request naming the document is answered with 400.
C6_TerminalAbsorbing400 ==
    [][/\ \A id \in QuoteIds :
            (AcceptedQuote(id) /\ last'.op \in QuoteOps) =>
                (QuoteKept(id) /\ (last'.a = id => last'.code = 400))
       /\ \A id \in InvoiceIds :
            (PaidInvoice(id) /\ last'.op \in InvoiceOps) =>
                (InvoiceKept(id) /\ (last'.a = id => last'.code = 400))]_vars

\* C6 amended: once a quote is accepted or an invoice is paid, a header update
\* or line-item request never changes the document; a request naming it is
\* rejected, with 403 when the route checks ownership first (quote header
\* update, quote item add, invoice header update) and the authenticated user
\* is neither the creator nor admin/manager, and with 400 otherwise.
C6_TerminalAbsorbing ==
    [][/\ \A id \in QuoteIds :
            (AcceptedQuote(id) /\ last'.op \in QuoteOps) =>
                /\ QuoteKept(id)
                /\ last'.a = id =>
                      last'.code =
                          IF /\ last'.op \in {"updateQuote", "addQuoteItem"}
                             /\ ~canModify(last'.user, quotes[id].created_by)
                          THEN 403 ELSE 400
       /\ \A id \in InvoiceIds :
            (PaidInvoice(id) /\ last'.op \in InvoiceOps) =>
                /\ InvoiceKept(id)
                /\ last'.a = id =>
                      last'.code =
                          IF /\ last'.op = "updateInvoice"
                             /\ ~canModify(last'.user, invoices[id].created_by)
                          THEN 403 ELSE 400]_vars

\* A header update of a paid invoice that carries a line item was just rejected.
C6_Witness ==
    /\ last.op = "updateInvoice" /\ last.code = 400
    /\ PaidInvoice(last.a)
    /\ ItemsOf(invoice_items, last.a) # {}


\* Some request removes the line item and keeps its parent document.
ItemDeletable(docs, items, i) ==
    /\ i \notin DOMAIN items'
    /\ items[i].doc_id \in DOMAIN docs'

\* Some request rewrites the line item.
ItemUpdatable(items, i) == i \in DOMAIN items' /\ items'[i] # items[i]

\* Any one request to the quotes or invoices router.
DocRequest ==
    \/ \E u \in ActingUsers, p \in ProjectRefs, t \in TaxRates, s \in QuoteStatuses :
          CreateQuote(u, p, t, s)
    \/ \E u \in ActingUsers, id \in QuoteIds, p \in ProjectRefs, t \in TaxRates,
          s \in QuoteStatuses : UpdateQuote(u, id, p, t, s)
    \/ \E u \in ActingUsers, id \in QuoteIds : DeleteQuote(u, id)
    \/ \E u \in ActingUsers, id \in QuoteIds, e \in EquipmentRefs, n \in Quantities,
          c \in UnitPrices : AddQuoteItem(u, id, e, n, c)
    \/ \E u \in ActingUsers, id \in QuoteIds, i \in QuoteItemIds, e \in EquipmentRefs,
          n \in Quantities, c \in UnitPrices : UpdateQuoteItem(u, id, i, e, n, c)
    \/ \E u \in ActingUsers, id \in QuoteIds, i \in QuoteItemIds : DeleteQuoteItem(u, id, i)
    \/ \E u \in ActingUsers, p \in ProjectRefs, q \in QuoteRefs, t \in TaxRates,
          s \in InvoiceStatuses : CreateInvoice(u, p, q, t, s)
    \/ \E u \in ActingUsers, id \in InvoiceIds, p \in ProjectRefs, q \in QuoteRefs,
          t \in TaxRates, s \in InvoiceStatuses : UpdateInvoice(u, id, p, q, t, s)
    \/ \E u \in ActingUsers, id \in InvoiceIds : DeleteInvoice(u, id)
    \/ \E u \in ActingUsers, id \in InvoiceIds, e \in EquipmentRefs, n \in Quantities,
          c \in UnitPrices : AddInvoiceItem(u, id, e, n, c)

\* C7 (quotes): a line item of a quote that is not accepted can be updated
\* and can be deleted by a request, and the totals agree afterwards.
QuoteItemsMutable ==
    \A i \in DOMAIN quote_items :
        ~AcceptedQuote(quote_items[i].doc_id) =>
            /\ ENABLED (DocRequest /\ ItemUpdatable(quote_items, i) /\ C1_DerivedTotals')
            /\ ENABLED (DocRequest /\ ItemDeletable(quotes, quote_items, i)
                                   /\ C1_DerivedTotals')

\* C7 (invoices): a line item of an invoice that is not paid can be updated
\* and can be deleted by a request, and the totals agree afterwards.
InvoiceItemsMutable ==
    \A i \in DOMAIN invoice_items :
        ~PaidInvoice(invoice_items[i].doc_id) =>
            /\ ENABLED (DocRequest /\ ItemUpdatable(invoice_items, i) /\ C1_DerivedTotals')
            /\ ENABLED (DocRequest /\ ItemDeletable(invoices, invoice_items, i)
                                   /\ C1_DerivedTotals')

\* C7: quote items and invoice items can each be created, updated and deleted
\* through the API, and the parent's subtotal, tax_amount and total_amount
\* agree with the line items after every such request.
C7_ItemsMutable == QuoteItemsMutable /\ InvoiceItemsMutable


Allocated == last'.op = "allocateEquipment" /\ last'.code = 201
Returned == last'.op = "returnEquipment" /\ last'.code = 200

\* The allocation rows of the pair (project, equipment).
RowsOfPair(rows, projectId, equipmentId) ==
    {a \in DOMAIN rows : /\ rows[a].project_id = projectId
                         /\ rows[a].equipment_id = equipmentId}

\* C8: a successful allocation of E to P creates a row (P, E) with
\* returned_date NULL and makes E unavailable; a successful return of (P, E)
\* sets returned_date on that same row, which is kept, and makes E available.
C8_AllocateThenReturn ==
    [][/\ Allocated =>
            /\ \E a \in DOMAIN project_equipment' \ DOMAIN project_equipment :
                  /\ project_equipment'[a] = AllocationRow(last'.a, last'.b)
                  /\ DOMAIN project_equipment' = DOMAIN project_equipment \cup {a}
            /\ ~equipment'[last'.b].is_available
       /\ Returned =>
            /\ \E a \in OpenAllocations(last'.a, last'.b) :
                  /\ a \in DOMAIN project_equipment'
                  /\ project_equipment'[a].returned_date # "NULL"
                  /\ project_equipment'[a].project_id = last'.a
                  /\ project_equipment'[a].equipment_id = last'.b
            /\ DOMAIN project_equipment' = DOMAIN project_equipment
            /\ equipment'[last'.b].is_available]_vars

\* An allocated equipment was just returned: its row carries a returned_date
\* and the equipment is available again.
C8_Witness ==
    /\ last.op = "returnEquipment" /\ last.code = 200
    /\ \E a \in RowsOfPair(project_equipment, last.a, last.b) :
          project_equipment[a].returned_date # "NULL"
    /\ equipment[last.b].is_available


\* One of the three preconditions of the allocation fails.
PreconditionFails(projectId, equipmentId) ==
    \/ projectId \in DOMAIN projects
          /\ projects[projectId].status \in {"completed", "cancelled"}
    \/ equipmentId \in DOMAIN equipment /\ ~equipment[equipmentId].is_available
    \/ OpenAllocations(projectId, equipmentId) # {}

NothingAllocated == UNCHANGED <<project_equipment, equipment>>

\* C9 as stated: an allocation request for which a precondition fails (project
\* completed or cancelled, equipment unavailable, or an open row for the pair)
\* is answered with 400, creates no row and changes no is_available flag.
C9_PreconditionFails400 ==
    [][(last'.op = "allocateEquipment" /\ PreconditionFails(last'.a, last'.b))
            => (last'.code = 400 /\ NothingAllocated)]_vars

\* C9 amended: such a request creates no row and changes no flag; it is
\* answered with 400 when it names an existing project, and with 404 when the
\* project does not exist (the project is looked up first).
C9_PreconditionFailsRejected ==
    [][(last'.op = "allocateEquipment" /\ PreconditionFails(last'.a, last'.b))
            => /\ last'.code = IF last'.a \in DOMAIN projects THEN 400 ELSE 404
               /\ NothingAllocated]_vars

\* An allocation to a planning project of an available equipment was just
\* rejected because the pair already has an open row.
C9_Witness ==
    /\ last.op = "allocateEquipment" /\ last.code = 400
    /\ last.a \in DOMAIN projects /\ projects[last.a].status = "planning"
    /\ last.b \in DOMAIN equipment /\ equipment[last.b].is_available
    /\ OpenAllocations(last.a, last.b) # {}


\* C10: once E has been returned from P, a new allocation request for (P, E)
\* with P planning or active and E available succeeds and inserts a new row
\* with returned_date NULL.
C10_ReallocationAfterReturn ==
    [][(/\ last'.op = "allocateEquipment"
        /\ last'.a \in DOMAIN projects
        /\ projects[last'.a].status \in {"planning", "active"}
        /\ last'.b \in DOMAIN equipment
        /\ equipment[last'.b].is_available
        /\ RowsOfPair(project_equipment, last'.a, last'.b) # {}
        /\ OpenAllocations(last'.a, last'.b) = {})
            => /\ last'.code = 201
               /\ \E a \in DOMAIN project_equipment' \ DOMAIN project_equipment :
                     project_equipment'[a] = AllocationRow(last'.a, last'.b)]_vars


\* An open allocation row of the equipment on a planning or active project.
InUse(equipmentId) ==
    \E a \in DOMAIN project_equipment :
        /\ project_equipment[a].equipment_id = equipmentId
        /\ project_equipment[a].returned_date = "NULL"
        /\ project_equipment[a].project_id \in DOMAIN projects
        /\ projects[project_equipment[a].project_id].status \in {"planning", "active"}

\* C11: a DELETE request for an equipment that has an allocation row with
\* returned_date NULL on a planning or active project is rejected (400 for
\* an admin, 403 for any other role) and the equipment row is kept.
C11_InUseEquipmentKept ==
    [][(last'.op = "deleteEquipment" /\ InUse(last'.a))
            => /\ last'.code = IF authorize(last'.user, {"admin"}) THEN 400 ELSE 403
               /\ last'.a \in DOMAIN equipment'
               /\ UNCHANGED <<equipment, project_equipment>>]_vars

\* The delete of an equipment with an open allocation on a planning or active
\* project was just rejected.
C11_Witness ==
    /\ last.op = "deleteEquipment" /\ last.code = 400
    /\ InUse(last.a)
    /\ last.a \in DOMAIN equipment


\* The request just answered names quote id and was made by a user who is
\* neither its creator nor admin/manager.
StrangerOnQuote(id) ==
    /\ last'.op \in QuoteOps \cup {"deleteQuote"}
    /\ last'.a = id /\ id \in DOMAIN quotes
    /\ last'.user \in DOMAIN users
    /\ ~canModify(last'.user, quotes[id].created_by)

StrangerOnInvoice(id) ==
    /\ last'.op \in InvoiceOps \cup {"deleteInvoice"}
    /\ last'.a = id /\ id \in DOMAIN invoices
    /\ last'.user \in DOMAIN users
    /\ ~canModify(last'.user, invoices[id].created_by)

\* C12: no update or delete request on a quote or invoice, its line items
\* included, made by a user who is neither the creator nor admin/manager
\* changes the document, its line items or its totals (the claim adds that
\* the answer is 403).
C12_StrangerKeepsDocument ==
    [][/\ \A id \in QuoteIds : StrangerOnQuote(id) => QuoteKept(id)
       /\ \A id \in InvoiceIds : StrangerOnInvoice(id) => InvoiceKept(id)]_vars


\* The request just answered is a header update or a delete of a document
\* made by the document's creator.
ByCreator(docs, ops) ==
    /\ last'.op \in ops
    /\ last'.a \in DOMAIN docs
    /\ docs[last'.a].created_by = last'.user

\* C13: an update or delete request on a quote or invoice made by its creator
\* passes the authorization check (is never answered with 403), whatever the
\* creator's role.
C13_CreatorAuthorized ==
    [][/\ ByCreator(quotes, {"updateQuote", "deleteQuote"}) => last'.code # 403
       /\ ByCreator(invoices, {"updateInvoice", "deleteInvoice"}) => last'.code # 403]_vars


NotFound == last'.code = 404 /\ UNCHANGED DocTables

\* The request names a document that does not exist (a delete is looked at
\* when the role gate of the delete routes lets the user through).
MissingDocument ==
    \/ /\ last'.op \in QuoteOps
       /\ last'.a \notin DOMAIN quotes
    \/ /\ last'.op \in InvoiceOps
       /\ last'.a \notin DOMAIN invoices
    \/ /\ last'.op = "deleteQuote"
       /\ last'.a \notin DOMAIN quotes
       /\ authorize(last'.user, {"admin", "manager"})
    \/ /\ last'.op = "deleteInvoice"
       /\ last'.a \notin DOMAIN invoices
       /\ authorize(last'.user, {"admin", "manager"})

\* The request names a line item that does not exist in the quote it names,
\* a quote that exists and is not accepted.
MissingItem(ops) ==
    /\ last'.op \in ops
    /\ last'.a \in DOMAIN quotes /\ ~AcceptedQuote(last'.a)
    /\ last'.b \notin ItemsOf(quote_items, last'.a)

MissingRow404(itemOps) == (MissingDocument \/ MissingItem(itemOps)) => NotFound

\* C14: an update or delete request that names a quote or invoice that does
\* not exist, or a quote line item whose id does not exist in that quote, is
\* answered with 404 and changes no stored data.
C14_MissingRow404 == [][MissingRow404({"updateQuoteItem", "deleteQuoteItem"})]_vars


\* Equipment references of a request that match no equipment row.
UnknownEquipment == {e \in EquipmentRefs : e # NULL /\ e \notin DOMAIN equipment}

\* The step is a line-item add or update that supplies an unknown equipment
\* reference and passes every earlier check of its route (the document exists
\* and is not in its terminal status, the user may modify it, the item to
\* update exists).
WithUnknownEquipment(ops) ==
    \E e \in UnknownEquipment, n \in Quantities, c \in UnitPrices :
        \/ /\ last'.op = "addQuoteItem" /\ "addQuoteItem" \in ops
           /\ last'.a \in DOMAIN quotes /\ ~AcceptedQuote(last'.a)
           /\ canModify(last'.user, quotes[last'.a].created_by)
           /\ AddQuoteItem(last'.user, last'.a, e, n, c)
        \/ /\ last'.op = "updateQuoteItem" /\ "updateQuoteItem" \in ops
           /\ last'.a \in DOMAIN quotes /\ ~AcceptedQuote(last'.a)
           /\ last'.b \in ItemsOf(quote_items, last'.a)
           /\ UpdateQuoteItem(last'.user, last'.a, last'.b, e, n, c)
        \/ /\ last'.op = "addInvoiceItem" /\ "addInvoiceItem" \in ops
           /\ last'.a \in DOMAIN invoices /\ ~PaidInvoice(last'.a)
           /\ AddInvoiceItem(last'.user, last'.a, e, n, c)

UnknownEquipment404(ops) == WithUnknownEquipment(ops) => NotFound

\* C15: a line-item add or update on a quote or invoice that supplies an
\* equipment reference matching no equipment row is answered with 404 and
\* leaves the document's line items and totals unchanged.
C15_UnknownEquipment404 ==
    [][UnknownEquipment404({"addQuoteItem", "updateQuoteItem", "addInvoiceItem"})]_vars


\* C16: every stored quote item and invoice item has
\* total_price = quantity * unit_price.
C16_TotalPriceIsProduct ==
    /\ \A i \in DOMAIN quote_items :
          quote_items[i].total_price = quote_items[i].quantity * quote_items[i].unit_price
    /\ \A i \in DOMAIN invoice_items :
          invoice_items[i].total_price
              = invoice_items[i].quantity * invoice_items[i].unit_price

\* A quote item was just rewritten to quantity 2 at unit price 50.
C16_Witness ==
    /\ last.op = "updateQuoteItem" /\ last.code = 200
    /\ last.b \in DOMAIN quote_items
    /\ quote_items[last.b].quantity = 2
    /\ quote_items[last.b].total_price = 100 * Currency


\* The number is <prefix><year>-<seq>, seq being count + 1 written as four
\* decimal digits.
NumberedAs(number, prefix, count) ==
    /\ number.prefix = prefix
    /\ number.year = year
    /\ Len(number.seq) = 4
    /\ \A k \in 1..4 : number.seq[k] \in 0..9
    /\ DigitsValue(number.seq) = count + 1

\* C17: a create of a quote, invoice or delivery note assigns the number
\* <PREFIX><year>-<seq>, seq being the number of stored documents of the type
\* whose number starts with <PREFIX><year>-, plus one, zero-padded to 4 digits.
C17_NumberFormat ==
    [][/\ lastId'.quotes # lastId.quotes =>
            NumberedAs(quotes'[lastId'.quotes].number, "Q", CountLike(quotes, "Q", year))
       /\ lastId'.invoices # lastId.invoices =>
            NumberedAs(invoices'[lastId'.invoices].number, "INV",
                       CountLike(invoices, "INV", year))
       /\ lastId'.delivery_notes # lastId.delivery_notes =>
            NumberedAs(delivery_notes'[lastId'.delivery_notes].number, "DN",
                       CountLike(delivery_notes, "DN", year))]_vars

\* Two quotes created one after the other in a year without quotes carry
\* 0001 and 0002.
C17_Witness ==
    /\ last.op = "createQuote" /\ last.code = 201
    /\ quotes[last.a].number = [prefix |-> "Q", year |-> year, seq |-> <<0, 0, 0, 2>>]
    /\ \E q \in DOMAIN quotes :
          quotes[q].number = [prefix |-> "Q", year |-> year, seq |-> <<0, 0, 0, 1>>]
    /\ Cardinality(DOMAIN quotes) = 2


\* The item just added to a quote with tax_rate 10 and no line items:
\* quantity 2 at unit price 50.
FirstItemAdded ==
    /\ last'.op = "addQuoteItem" /\ last'.code = 201
    /\ quotes[last'.a].tax_rate = 10
    /\ ItemsOf(quote_items, last'.a) = {}
    /\ quote_items'[last'.b].quantity = 2
    /\ quote_items'[last'.b].unit_price = 50 * Currency

\* A delete that leaves the quote without line items.
LastItemDeleted ==
    /\ last'.op = "deleteQuoteItem" /\ last'.code = 200
    /\ ItemsOf(quote_items', last'.a) = {}

\* C18: adding an item with quantity 2 and unit_price 50 to a quote with
\* tax_rate 10 and no line items stores total_price 100 and sets subtotal 100,
\* tax_amount 10 and total_amount 110; a delete that leaves the quote without
\* line items sets the three totals to 0.
C18_Scenario ==
    [][/\ FirstItemAdded =>
            /\ quote_items'[last'.b].total_price = 100 * Currency
            /\ quotes'[last'.a].subtotal = 100 * Currency
            /\ quotes'[last'.a].tax_amount = 10 * Currency
            /\ quotes'[last'.a].total_amount = 110 * Currency
       /\ LastItemDeleted =>
            /\ quotes'[last'.a].subtotal = 0
            /\ quotes'[last'.a].tax_amount = 0
            /\ quotes'[last'.a].total_amount = 0]_vars

\* The only quote ever created has tax_rate 10; the only item ever added to it
\* is gone after a delete of that item, and the totals are 0.
C18_Witness ==
    /\ last.op = "deleteQuoteItem" /\ last.code = 200 /\ last.b = 1
    /\ lastId.quotes = 1 /\ lastId.quote_items = 1
    /\ last.a \in DOMAIN quotes /\ quotes[last.a].tax_rate = 10
    /\ quote_items = <<>>
    /\ quotes[last.a].total_amount = 0

\* The token names a stored user whose is_active flag is set.
ValidToken(u) == \E w \in DOMAIN users : w = u /\ users[w].is_active

\* C19: a request whose token does not name an existing user with is_active
\* set at the time of the request is answered 401 and changes no stored row;
\* this holds for the token of a user deactivated or deleted earlier.
C19_Unauthenticated401 ==
    [][~ValidToken(last'.user) => last'.code = 401 /\ UNCHANGED dbVars]_vars

\* C19 witness: the token of a user deactivated by an earlier user update has
\* just been turned away with 401.
C19_Witness ==
    /\ last.op # "none" /\ last.code = 401
    /\ last.user \in DOMAIN users /\ ~users[last.user].is_active

\* The routes open to admin and manager, and those open to admin alone.
ManagerRoutes == {"createEquipment", "updateEquipment", "updateUser"}
AdminRoutes == {"deleteEquipment", "deleteUser"}

\* An authenticated request on a role-gated route by a role the gate excludes.
WrongRole ==
    /\ ValidToken(last'.user)
    /\ \/ last'.op \in ManagerRoutes /\ users[last'.user].role \notin {"admin", "manager"}
       \/ last'.op \in AdminRoutes /\ users[last'.user].role # "admin"

\* C20: equipment create, equipment update and user update by a role other
\* than admin or manager, and equipment deletion and user deletion by a role
\* other than admin, are answered 403 and change no stored row.
C20_RoleGates ==
    [][WrongRole => last'.code = 403 /\ UNCHANGED dbVars]_vars

\* C20 witness: a manager's user deletion has just been answered 403.
C20_Witness ==
    /\ last.op = "deleteUser" /\ last.code = 403
    /\ last.user \in DOMAIN users /\ users[last.user].role = "manager"

\* No two rows of the table agree on the column, NULL apart.
NoSharedValue(table, column) ==
    \A r1 \in DOMAIN table, r2 \in DOMAIN table :
        (r1 # r2 /\ table[r1][column] # NULL) => table[r1][column] # table[r2][column]

UniqueColumns ==
    /\ NoSharedValue(equipment, "serial_number")
    /\ NoSharedValue(users, "username")
    /\ NoSharedValue(users, "email")
    /\ NoSharedValue(customers, "email")

\* Another row of the table already holds the value in the column.
HeldByOther(table, column, value, id) ==
    value # NULL /\ \E r \in DOMAIN table \ {id} : table[r][column] = value

\* The request is answered 400 and no row is written.
Conflict == last'.code = 400 /\ UNCHANGED dbVars

\* An authorized create or update that would store a value another row holds.
DuplicateRejected ==
    /\ \A u \in AllocUsers, sn \in UniqueSerials :
          (HeldByOther(equipment, "serial_number", sn, NULL) /\ protect(u)
           /\ CreateEquipment(u, sn, TRUE)) => Conflict
    /\ \A u \in AllocUsers, id \in DOMAIN equipment, sn \in UniqueSerials :
          (HeldByOther(equipment, "serial_number", sn, id) /\ protect(u)
           /\ UpdateEquipment(u, id, sn, TRUE)) => Conflict
    /\ \A n \in UniqueNames, m \in UniqueNames :
          ((HeldByOther(users, "username", n, NULL) \/ HeldByOther(users, "email", m, NULL))
           /\ Register(n, m, "user")) => Conflict
    /\ \A u \in AllocUsers, id \in DOMAIN users, n \in UniqueNameInputs,
          m \in UniqueNameInputs :
          ((HeldByOther(users, "username", n, id) \/ HeldByOther(users, "email", m, id))
           /\ protect(u) /\ UpdateUser(u, id, n, m, "undefined", "undefined")) => Conflict
    /\ \A u \in AllocUsers, m \in CustomerEmails :
          (HeldByOther(customers, "email", m, NULL) /\ protect(u)
           /\ CreateCustomer(u, m)) => Conflict
    /\ \A u \in AllocUsers, id \in DOMAIN customers, m \in CustomerEmails :
          (HeldByOther(customers, "email", m, id) /\ protect(u)
           /\ UpdateCustomer(u, id, m)) => Conflict

\* C21: after any sequence of requests no two equipment rows share a non-null
\* serial number, no two users a username or an email, no two customers an
\* email; an authorized create or update that would introduce such a duplicate
\* is answered 400 and leaves the stored data unchanged.
C21_UniqueColumns == [][DuplicateRejected /\ UniqueColumns']_vars

\* C21 witness: two equipment rows carry different serial numbers and an
\* update that would give one the other's serial number was just answered 400.
C21_Witness ==
    /\ last.op = "updateEquipment" /\ last.code = 400
    /\ \E e1 \in DOMAIN equipment, e2 \in DOMAIN equipment :
          /\ equipment[e1].serial_number = 1
          /\ equipment[e2].serial_number = 2

StartBeforeEnd == \A p \in DOMAIN projects : projects[p].start_date < projects[p].end_date

\* The request is answered 400 and no project row is written.
DatesRejected == last'.code = 400 /\ UNCHANGED dbVars

\* A create, or an update of an existing project, whose start date is not
\* strictly before its end date.
BadDatesRejected ==
    \A u \in Tokens, sd \in ProjectDates, ed \in ProjectDates, s \in DatedStatuses :
        sd >= ed =>
            /\ CreateProject(u, sd, ed, s) => DatesRejected
            /\ \A id \in DOMAIN projects :
                  (canModify(u, projects[id].created_by) /\ UpdateProject(u, id, sd, ed, s))
                      => DatesRejected

BothCompleted(r1, r2) ==
    /\ r1 < r2 /\ Done(r1) /\ Done(r2)
    /\ \A r \in DOMAIN reqs : reqs[r].pc = "done"
    /\ reqs[r1].quote = reqs[r2].quote
    /\ "addQuoteItem" \in {reqs[r1].op, reqs[r2].op}

\* C23: when two line-item mutations on a quote, or a line-item mutation and
\* a header update, ran with their database calls interleaved and both have
\* been answered, the stored subtotal, tax_amount and total_amount equal the
\* aggregate of the quote's final line items and final tax_rate.
C23_TotalsFreshAfterRace ==
    \A r1 \in Requests, r2 \in Requests :
        (BothCompleted(r1, r2) /\ reqs[r1].quote \in DOMAIN quotes)
            => DerivedFieldsAgree(quotes[reqs[r1].quote], quote_items, reqs[r1].quote)

\* A line-item request carries out one of its writes: the INSERT of the item
\* or the UPDATE of the totals.
LineItemWrite(r) ==
    /\ reqs[r].op = "addQuoteItem"
    /\ reqs[r].pc \in {"insertItem", "updateTotals"}
    /\ reqs'[r].pc # reqs[r].pc

\* C25: under any interleaving of a line-item request with a header update
\* that sets the quote's status to accepted, the line-item request inserts no
\* item and rewrites no totals once the stored status is accepted.
C25_NoItemWriteAfterAccepted ==
    [][\A r \in DOMAIN reqs :
          (LineItemWrite(r) /\ AcceptedQuote(reqs[r].quote))
              => (quote_items' = quote_items /\ quotes' = quotes)]_vars

\* The INSERT of request r is carried out while a stored quote already bears
\* the number r computed.
InsertOfTakenNumber(r) ==
    /\ reqs[r].pc = "insertQuote" /\ reqs'[r].pc = "done"
    /\ \E q \in DOMAIN quotes : quotes[q].number = reqs[r].number

\* C24: two create requests in flight can compute the same number, and the
\* INSERT of a number that a stored quote already bears is rejected by the
\* UNIQUE constraint: the request is answered 500 and no row is stored.
C24_SecondInsertRejected ==
    [][\A r \in DOMAIN reqs :
          InsertOfTakenNumber(r) => (reqs'[r].code = 500 /\ quotes' = quotes)]_vars

\* C24 witness: two create requests read the same count before either
\* inserted; the first INSERT stored the quote, the second was rejected.
C24_Witness ==
    \E r1 \in DOMAIN reqs, r2 \in DOMAIN reqs :
        /\ Done(r1) /\ Done(r2)
        /\ reqs[r1].number = reqs[r2].number
        /\ reqs[r1].code = 201 /\ reqs[r2].code = 500
        /\ reqs[r1].quote \in DOMAIN quotes
        /\ quotes[reqs[r1].quote].number = reqs[r2].number

OpenRowsOfEquipment(equipmentId) ==
    {a \in DOMAIN project_equipment :
        /\ project_equipment[a].equipment_id = equipmentId
        /\ project_equipment[a].returned_date = "NULL"}

\* C26: after any sequence of requests run one at a time, equipment updates
\* included, every equipment has at most one allocation row whose
\* returned_date is NULL, over all projects.
C26_AtMostOneOpenAllocation ==
    \A e \in DOMAIN equipment : Cardinality(OpenRowsOfEquipment(e)) <= 1

\* The equipment is unavailable and an allocation row with returned_date NULL
\* accounts for it.
HeldByOpenAllocation(e) ==
    /\ e \in DOMAIN equipment /\ ~equipment[e].is_available
    /\ OpenRowsOfEquipment(e) # {}

\* C27: an equipment made unavailable by an allocation, whose flag has not
\* changed since, still has an allocation row with returned_date NULL; in
\* particular no request, project deletion included, removes the open row of
\* an equipment and leaves its is_available flag false.
C27_UnavailableHasOpenAllocation ==
    [][\A e \in DOMAIN equipment :
          (HeldByOpenAllocation(e) /\ e \in DOMAIN equipment' /\ ~equipment'[e].is_available)
              => HeldByOpenAllocation(e)']_vars

\* C28: no sequence of requests issued only by principals without role admin
\* (unauthenticated callers, users, managers) makes a user row, new or
\* existing, hold role admin: the administrators are those there at the start.
C28_NoNewAdmin ==
    \A w \in DOMAIN users : users[w].role = "admin" => w \in AllocUsers

\* Every allocation row of the equipment has its returned_date set.
AllReturned(equipmentId) ==
    /\ equipmentId \in DOMAIN equipment
    /\ OpenRowsOfEquipment(equipmentId) = {}

\* C29: an administrator's DELETE of an equipment all of whose allocation
\* rows have returned_date set is not answered with the 400 of the
\* allocated-to-active-projects check, whatever the status of the projects
\* the rows belong to.
C29_ReturnedEquipmentPassesGuard ==
    [][(last'.op = "deleteEquipment" /\ last'.user \in AllocUsers /\ AllReturned(last'.a))
          => last'.code # 400]_vars

\* The equipment table differs from before at most in the is_available flag
\* of the named equipment.
OnlyAvailabilityOf(equipmentId) ==
    /\ DOMAIN equipment' = DOMAIN equipment
    /\ \A e \in DOMAIN equipment :
          IF e = equipmentId
          THEN equipment'[e] = [equipment[e] EXCEPT !.is_available = equipment'[e].is_available]
          ELSE equipment'[e] = equipment[e]

\* C30: an allocation request and a return request change, in the equipment
\* table, only the is_available flag of the equipment they name, and change
\* no project row.
C30_AllocationFrame ==
    [][last'.op \in {"allocateEquipment", "returnEquipment"}
          => (OnlyAvailabilityOf(last'.b) /\ projects' = projects)]_vars

\* C30 witness: an equipment was just returned while another equipment is
\* still allocated and unavailable.
C30_Witness ==
    /\ last.op = "returnEquipment" /\ last.code = 200
    /\ last.b \in DOMAIN equipment /\ equipment[last.b].is_available
    /\ \E e \in DOMAIN equipment : e # last.b /\ ~equipment[e].is_available

====
